---- MODULE Spec2Model ----
(***************************************************************************)
(* ServiceControllerRouter (connections/implementation/                    *)
(* service_controller_router.cc): callers on arbitrary threads submit      *)
(* operations; each operation runs its pre-queue statements on the calling *)
(* thread, then RouteToServiceController hands its body to the serializer, *)
(* which runs bodies one at a time.  ClientProxy (the client session),     *)
(* ServiceController (the transport controller) and the serializer are     *)
(* collaborators whose code is outside this file; they are modelled by     *)
(* their contract.                                                         *)
(***************************************************************************)
EXTENDS Integers, Sequences, FiniteSets, TLC

\* ---------------------------------------------------------------- bounds
MaxCalls == 3       \* operations submitted in one behaviour
MaxQueue == 2       \* bodies waiting in the serializer
MaxLiveCalls == 2   \* operations submitted where progress is followed
MaxEvents == 2      \* quality queries, and listener events fired
MaxBleCalls == 3    \* calls of the BleMedium made in one behaviour

Clients   == {"c1", "c2"}
Endpoints == {"e1", "e2", "e3"}
Threads   == {"t1", "t2"}

\* Status values the router itself produces, and those the transport
\* controller may return.
Success == "Success"
Pass    == "pass"          \* a guard that lets the body go on
TCStatuses == {"Success", "BluetoothError"}

VARIABLES
    session,      \* [Clients -> ClientProxy state]
    queue,        \* serializer_: bodies waiting, FIFO
    executing,    \* bodies taken for execution and not yet retired
    pc,           \* [Threads -> position of the thread inside a router call]
    ncalls,       \* number of router calls made so far
    requested,    \* [Clients -> [Endpoints -> the last request-connection body
                  \* for it succeeded and nothing disconnected it since]]
    answered_by,  \* [Clients -> [Endpoints -> the kind of the answer body that
                  \* last completed with Success for it, "" once the endpoint
                  \* was disconnected]]
    router,       \* the router object: whether service_controller_ holds a
                  \* controller, and how far its destructor has come
    payloads,     \* [payload -> how often it was handed to the controller, and
                  \* whether the result_cb of its SendPayload was invoked]
    adapter,      \* the device-centric side: the GetMediumQuality calls made and
                  \* their results, the listener bundles RequestConnectionV3
                  \* gave to the controller, the endpoint-id events the
                  \* controller fired on them and what reached the caller's
                  \* device-centric listener for each
    ble           \* the Windows BleMedium: its mutex, advertisement, publisher,
                  \* watcher and promises, and where each thread stands in
                  \* a call of it

vars == <<session, queue, executing, pc, ncalls, requested, answered_by, router,
          payloads, adapter, ble>>

\* ------------------------------------------------- ClientProxy (contract)
InitSession ==
    [advertising |-> FALSE, discovering |-> FALSE,
     connections |-> [e \in Endpoints |-> "none"],
     responded |-> {},
     cancellation_flags |-> {}]

IsAdvertising(s) == s.advertising
IsDiscovering(s) == s.discovering
IsConnectedToEndpoint(s, e) == s.connections[e] = "connected"
HasPendingConnectionToEndpoint(s, e) == s.connections[e] = "pending"
HasLocalEndpointResponded(s, e) == e \in s.responded
GetPendingConnectedEndpoints(s) == {e \in Endpoints : s.connections[e] = "pending"}
GetConnectedEndpoints(s) == {e \in Endpoints : s.connections[e] = "connected"}

\* cancellation_flags holds the endpoints with a registered flag that has not
\* been raised.  Raising a flag takes it out of the set (it is cleared from
\* the session by the same step); an endpoint without a registered flag is
\* observed as cancelled.
AddCancellationFlag(s, e) ==
    [s EXCEPT !.cancellation_flags = @ \cup {e}]
CancelEndpoint(s, e) ==
    [s EXCEPT !.cancellation_flags = @ \ {e}]
CancelAllEndpoints(s) ==
    [s EXCEPT !.cancellation_flags = {}]
Cancelled(s, e) == e \notin s.cancellation_flags
Reset(s) == InitSession

\* ------------------------------------------- ServiceController (contract)
\* Each method returns the session as the controller leaves it and the Status
\* it reports; r is the outcome the medium produces for a fallible request.
\* A call into the ServiceController: method, endpoint, endpoint list and the
\* Status it returned ("void" when it returns none).
TcCall(m, e, ids, ret) == [m |-> m, e |-> e, ids |-> ids, ret |-> ret, payload |-> 0]
Void == "void"
NoEndpoint == "-"
\* ... and one that is given a payload, or the id of one.
TcPayloadCall(m, ids, ret, payload) ==
    [m |-> m, e |-> NoEndpoint, ids |-> ids, ret |-> ret, payload |-> payload]

SC_StartAdvertising(s, r) ==
    [s |-> IF r = Success THEN [s EXCEPT !.advertising = TRUE] ELSE s, status |-> r]
SC_StopAdvertising(s) == [s EXCEPT !.advertising = FALSE]
SC_StartDiscovery(s, r) ==
    [s |-> IF r = Success THEN [s EXCEPT !.discovering = TRUE] ELSE s, status |-> r]
SC_StopDiscovery(s) == [s EXCEPT !.discovering = FALSE]
\* Connection-establishing work consults the cancellation flag first.  The
\* controller starts the connection it is asked for: it is the router's guard
\* that keeps a request away from an endpoint that has a relation already.
SC_RequestConnection(s, e, r) ==
    IF Cancelled(s, e) THEN [s |-> s, status |-> "Error"]
    ELSE IF r = Success
         THEN [s |-> [s EXCEPT !.connections[e] = "pending"], status |-> Success]
         ELSE [s |-> s, status |-> "BluetoothError"]
\* The local answer is recorded only for an endpoint that awaits one.
SC_AnswerConnection(s, e, r) ==
    IF r = Success /\ s.connections[e] = "pending"
    THEN [s |-> [s EXCEPT !.responded = @ \cup {e}], status |-> Success]
    ELSE [s |-> s, status |-> "BluetoothError"]
SC_AcceptConnection(s, e, r) == SC_AnswerConnection(s, e, r)
SC_RejectConnection(s, e, r) == SC_AnswerConnection(s, e, r)
SC_DisconnectFromEndpoint(s, e) ==
    [s EXCEPT !.connections[e] = "none", !.responded = @ \ {e},
              !.cancellation_flags = @ \ {e}]
SC_CancelPayload(s, r) == [s |-> s, status |-> r]

\* ------------------------------------------------------ Quality Classifier
\* The values a Medium may hold: the enumerators the switch names, one it
\* does not name, and a value outside the enumeration.
Mediums ==
    {"UNKNOWN_MEDIUM", "MDNS", "BLUETOOTH", "WIFI_HOTSPOT", "BLE", "WIFI_LAN",
     "WIFI_AWARE", "NFC", "WIFI_DIRECT", "WEB_RTC", "BLE_L2CAP", "USB",
     "out of range"}
kUnknown == "kUnknown"
kLow == "kLow"
kMedium == "kMedium"
kHigh == "kHigh"
\* (mutant) NFC is put with the medium tier
GetMediumQuality_NfcMedium(medium) ==
    CASE medium \in {"USB", "UNKNOWN_MEDIUM"} -> kUnknown
      [] medium \in {"BLE"} -> kLow
      [] medium \in {"BLUETOOTH", "BLE_L2CAP", "NFC"} -> kMedium
      [] medium \in {"WIFI_HOTSPOT", "WIFI_LAN", "WIFI_AWARE", "WIFI_DIRECT", "WEB_RTC"}
             -> kHigh
      [] OTHER -> kUnknown
GetMediumQuality(medium) ==
    CASE medium = "USB" -> kUnknown
      [] medium = "UNKNOWN_MEDIUM" -> kUnknown
      [] medium = "BLE" -> kLow
      [] medium = "NFC" -> kLow
      [] medium = "BLUETOOTH" -> kMedium
      [] medium = "BLE_L2CAP" -> kMedium
      [] medium = "WIFI_HOTSPOT" -> kHigh
      [] medium = "WIFI_LAN" -> kHigh
      [] medium = "WIFI_AWARE" -> kHigh
      [] medium = "WIFI_DIRECT" -> kHigh
      [] medium = "WEB_RTC" -> kHigh
      [] OTHER -> kUnknown

\* asked: the calls of GetMediumQuality made and their answers.
\* bundles: the endpoint-id listener bundles the controller holds.
\* fired: the callbacks of those bundles the controller has invoked;
\* delivered[i]: the calls fired[i] made on the caller's v3 listener.
InitAdapter == [asked |-> <<>>, bundles |-> {}, fired |-> <<>>, delivered |-> <<>>]

\* --- the ConnectionListener RequestConnectionV3 builds around the v3 listener
ListenerCallbacks ==
    {"initiated_cb", "accepted_cb", "rejected_cb", "disconnected_cb",
     "bandwidth_changed_cb"}
\* (mutant) every callback holds copies of what it calls
CapturesV3InfoByReference_None == {}
\* The callbacks whose lambda captures v3_info, a member of the queued
\* closure, by reference; accepted_cb and rejected_cb hold a copy of result_cb.
CapturesV3InfoByReference ==
    {"initiated_cb", "disconnected_cb", "bandwidth_changed_cb"}

\* A call on the caller's v3 listener.
V3Event(cb, listener, device, status, medium, quality) ==
    [cb |-> cb, listener |-> listener, device |-> device, status |-> status,
     medium |-> medium, quality |-> quality]
\* What a call through a dead reference may do besides what it was written to
\* do: call nothing the caller can see (or end the process), or call whatever
\* the memory now holds.
Undefined == V3Event("undefined", 0, "undefined", "undefined", "undefined", "undefined")

\* The body of each callback, run on the endpoint-id event ev for the v3
\* listener l: the calls it makes, in order.
InitiatedCb(l, ev) ==
    <<V3Event("initiated_cb", l, ev.endpoint_id, "", "", "")>>
AcceptedCb(l, ev) ==
    <<V3Event("result_cb", l, ev.endpoint_id, Success, "", "")>>
RejectedCb(l, ev) ==
    <<V3Event("result_cb", l, ev.endpoint_id, ev.status, "", "")>>
DisconnectedCb(l, ev) ==
    <<V3Event("disconnected_cb", l, ev.endpoint_id, "", "", "")>>
BandwidthChangedCb(l, ev) ==
    <<V3Event("bandwidth_changed_cb", l, ev.endpoint_id, "", ev.medium,
              GetMediumQuality(ev.medium))>>
ListenerCb(l, ev) ==
    CASE ev.cb = "initiated_cb" -> InitiatedCb(l, ev)
      [] ev.cb = "accepted_cb" -> AcceptedCb(l, ev)
      [] ev.cb = "rejected_cb" -> RejectedCb(l, ev)
      [] ev.cb = "disconnected_cb" -> DisconnectedCb(l, ev)
      [] ev.cb = "bandwidth_changed_cb" -> BandwidthChangedCb(l, ev)

\* What invoking a callback can come to: alive tells whether the queued
\* closure (and v3_info in it) still exists.
Invoke(l, ev, alive) ==
    IF ev.cb \in CapturesV3InfoByReference /\ ~alive
    THEN {ListenerCb(l, ev), <<>>, <<Undefined>>}
    ELSE {ListenerCb(l, ev)}

\* ------------------------------------------------------------ operations
EndpointKinds ==
    {"RequestConnection", "AcceptConnection", "RejectConnection",
     "InitiateBandwidthUpgrade", "DisconnectFromEndpoint",
     "RequestConnectionV3", "AcceptConnectionV3", "RejectConnectionV3",
     "InitiateBandwidthUpgradeV3", "SendPayloadV3", "DisconnectFromDeviceV3"}
SessionKinds ==
    {"StartAdvertising", "StopAdvertising", "StartDiscovery", "StopDiscovery",
     "CancelPayload", "StopAllEndpoints", "SetCustomSavePath",
     "CancelPayloadV3", "UpdateAdvertisingOptionsV3", "UpdateDiscoveryOptionsV3"}
RequestKinds == {"RequestConnection", "RequestConnectionV3"}
AcceptKinds == {"AcceptConnection", "AcceptConnectionV3"}
RejectKinds == {"RejectConnection", "RejectConnectionV3"}
DisconnectKinds == {"DisconnectFromEndpoint", "DisconnectFromDeviceV3"}

\* OutOfBandConnectionMetadata, by the sizes the router looks at.
BLUETOOTH == "BLUETOOTH"
NoMetadata == [medium |-> "UNKNOWN_MEDIUM", mac_len |-> 0, id_len |-> 0, info_len |-> 0]
kMacAddressLength == 6
kEndpointIdLength == 4
kMaxEndpointInfoLength == 131

MkOp(kind, c, e, ids, md) ==
    [kind |-> kind, client |-> c, endpoint_id |-> e, endpoint_ids |-> ids,
     metadata |-> md,
     \* bookkeeping kept with the queued closure:
     pre |-> <<>>,                \* statements its call ran before routing it
     cancelled_after |-> FALSE,   \* its endpoint was cancelled by a pre-queue
                                  \* step after it was routed and before it ran
     readded |-> FALSE,           \* ... and the flag was then registered again
     late |-> FALSE,              \* it was routed while another call had raised
                                  \* its endpoint's cancellation and not yet
                                  \* routed its own body
     pre_changed |-> FALSE,       \* a statement before routing changed the session
     caller |-> "",               \* the thread that submitted it and the number
     seq |-> 0,                   \* of its call, where the caller is followed
     at_call |-> InitSession,     \* the session as the call found it, where
                                  \* that is followed
     payload |-> 0,               \* the Payload (or payload id) it was given,
                                  \* 0 for none
     listener |-> 0]              \* the v3 listener it was given, where the
                                  \* listener is followed, 0 otherwise

\* (mutant) every target has to be connected
ClientHasConnectionToAtLeastOneEndpoint_All(s, remote_endpoint_ids) ==
    \A endpoint_id \in remote_endpoint_ids : IsConnectedToEndpoint(s, endpoint_id)
ClientHasConnectionToAtLeastOneEndpoint(s, remote_endpoint_ids) ==
    \E endpoint_id \in remote_endpoint_ids : IsConnectedToEndpoint(s, endpoint_id)

\* --- the statements each operation runs on the calling thread, in order
PlainSteps == <<"RouteToServiceController">>
\* (mutant) the body is routed before the flag is registered
RequestConnectionSteps_RouteFirst == <<"RouteToServiceController", "AddCancellationFlag">>
RequestConnectionSteps == <<"AddCancellationFlag", "RouteToServiceController">>
RequestConnectionV3Steps == <<"AddCancellationFlag", "RouteToServiceController">>
\* (mutant) the body is routed before the endpoint is cancelled
RejectConnectionSteps_RouteFirst == <<"RouteToServiceController", "CancelEndpoint">>
RejectConnectionSteps == <<"CancelEndpoint", "RouteToServiceController">>
RejectConnectionV3Steps == <<"CancelEndpoint", "RouteToServiceController">>
DisconnectFromEndpointSteps == <<"CancelEndpoint", "RouteToServiceController">>
DisconnectFromDeviceV3Steps == <<"CancelEndpoint", "RouteToServiceController">>
StopAllEndpointsSteps == <<"CancelAllEndpoints", "RouteToServiceController">>
\* The listening pair routes nothing: the caller gets the controller, calls
\* its method and returns.
ListeningKinds ==
    {"StartListeningForIncomingConnectionsV3", "StopListeningForIncomingConnectionsV3"}
ListeningMethods ==
    {"StartListeningForIncomingConnections", "StopListeningForIncomingConnections"}
StartListeningForIncomingConnectionsV3Steps ==
    <<"GetServiceController", "StartListeningForIncomingConnections", "return">>
StopListeningForIncomingConnectionsV3Steps ==
    <<"GetServiceController", "StopListeningForIncomingConnections", "return">>

Steps(kind) ==
    CASE kind = "RequestConnection" -> RequestConnectionSteps
      [] kind = "RequestConnectionV3" -> RequestConnectionV3Steps
      [] kind = "RejectConnection" -> RejectConnectionSteps
      [] kind = "RejectConnectionV3" -> RejectConnectionV3Steps
      [] kind = "DisconnectFromEndpoint" -> DisconnectFromEndpointSteps
      [] kind = "DisconnectFromDeviceV3" -> DisconnectFromDeviceV3Steps
      [] kind = "StopAllEndpoints" -> StopAllEndpointsSteps
      [] kind = "StartListeningForIncomingConnectionsV3" ->
             StartListeningForIncomingConnectionsV3Steps
      [] kind = "StopListeningForIncomingConnectionsV3" ->
             StopListeningForIncomingConnectionsV3Steps
      [] OTHER -> PlainSteps

\* --- guards: the checks a body makes before its first side effect; the
\* value is the Status of the first failing check, or Pass
\* (mutant) the flag is looked at when the call is made
StartAdvertisingGuard_AtCall(s, op) ==
    IF IsAdvertising(op.at_call) THEN "AlreadyAdvertising" ELSE Pass
StartAdvertisingGuard(s, op) ==
    IF IsAdvertising(s) THEN "AlreadyAdvertising" ELSE Pass
StartDiscoveryGuard(s, op) ==
    IF IsDiscovering(s) THEN "AlreadyDiscovering" ELSE Pass
\* (mutant) the discovery flag is looked at before the metadata
InjectEndpointGuard_DiscoveringFirst(s, op) ==
    LET metadata == op.metadata IN
    IF ~IsDiscovering(s) THEN "OutOfOrderApiCall"
    ELSE IF metadata.medium # BLUETOOTH \/ metadata.mac_len # kMacAddressLength
    THEN "Error"
    ELSE IF metadata.id_len # kEndpointIdLength THEN "Error"
    ELSE IF metadata.info_len = 0 \/ metadata.info_len > kMaxEndpointInfoLength
    THEN "Error"
    ELSE Pass
InjectEndpointGuard(s, op) ==
    LET metadata == op.metadata IN
    IF metadata.medium # BLUETOOTH \/ metadata.mac_len # kMacAddressLength
    THEN "Error"
    ELSE IF metadata.id_len # kEndpointIdLength THEN "Error"
    ELSE IF metadata.info_len = 0 \/ metadata.info_len > kMaxEndpointInfoLength
    THEN "Error"
    ELSE IF ~IsDiscovering(s) THEN "OutOfOrderApiCall"
    ELSE Pass
\* (mutant) only a connected endpoint is turned away
RequestConnectionGuard_ConnectedOnly(s, op) ==
    IF IsConnectedToEndpoint(s, op.endpoint_id)
    THEN "AlreadyConnectedToEndpoint" ELSE Pass
RequestConnectionGuard(s, op) ==
    IF HasPendingConnectionToEndpoint(s, op.endpoint_id)
       \/ IsConnectedToEndpoint(s, op.endpoint_id)
    THEN "AlreadyConnectedToEndpoint" ELSE Pass
RequestConnectionV3Guard(s, op) ==
    IF HasPendingConnectionToEndpoint(s, op.endpoint_id)
       \/ IsConnectedToEndpoint(s, op.endpoint_id)
    THEN "AlreadyConnectedToEndpoint" ELSE Pass
\* (mutant) the already-answered check comes first
AcceptConnectionGuard_AnsweredFirst(s, op) ==
    IF HasLocalEndpointResponded(s, op.endpoint_id) THEN "OutOfOrderApiCall"
    ELSE IF IsConnectedToEndpoint(s, op.endpoint_id) THEN "AlreadyConnectedToEndpoint"
    ELSE Pass
AcceptConnectionGuard(s, op) ==
    IF IsConnectedToEndpoint(s, op.endpoint_id) THEN "AlreadyConnectedToEndpoint"
    ELSE IF HasLocalEndpointResponded(s, op.endpoint_id) THEN "OutOfOrderApiCall"
    ELSE Pass
AcceptConnectionV3Guard(s, op) ==
    IF IsConnectedToEndpoint(s, op.endpoint_id) THEN "AlreadyConnectedToEndpoint"
    ELSE IF HasLocalEndpointResponded(s, op.endpoint_id) THEN "OutOfOrderApiCall"
    ELSE Pass
\* (mutant) a rejection does not look at the answer already given
RejectConnectionGuard_ConnectedOnly(s, op) ==
    IF IsConnectedToEndpoint(s, op.endpoint_id) THEN "AlreadyConnectedToEndpoint"
    ELSE Pass
RejectConnectionGuard(s, op) ==
    IF IsConnectedToEndpoint(s, op.endpoint_id) THEN "AlreadyConnectedToEndpoint"
    ELSE IF HasLocalEndpointResponded(s, op.endpoint_id) THEN "OutOfOrderApiCall"
    ELSE Pass
RejectConnectionV3Guard(s, op) ==
    IF IsConnectedToEndpoint(s, op.endpoint_id) THEN "AlreadyConnectedToEndpoint"
    ELSE IF HasLocalEndpointResponded(s, op.endpoint_id) THEN "OutOfOrderApiCall"
    ELSE Pass
\* (mutant) a pending endpoint may be upgraded too
InitiateBandwidthUpgradeGuard_PendingToo(s, op) ==
    IF ~IsConnectedToEndpoint(s, op.endpoint_id)
       /\ ~HasPendingConnectionToEndpoint(s, op.endpoint_id)
    THEN "OutOfOrderApiCall" ELSE Pass
InitiateBandwidthUpgradeGuard(s, op) ==
    IF ~IsConnectedToEndpoint(s, op.endpoint_id) THEN "OutOfOrderApiCall" ELSE Pass
InitiateBandwidthUpgradeV3Guard(s, op) ==
    IF ~IsConnectedToEndpoint(s, op.endpoint_id) THEN "OutOfOrderApiCall" ELSE Pass
SendPayloadGuard(s, op) ==
    IF ~ClientHasConnectionToAtLeastOneEndpoint(s, op.endpoint_ids)
    THEN "EndpointUnknown" ELSE Pass
SendPayloadV3Guard(s, op) ==
    IF ~IsConnectedToEndpoint(s, op.endpoint_id) THEN "EndpointUnknown" ELSE Pass
\* (mutant) only a connected endpoint may be disconnected
DisconnectFromEndpointGuard_ConnectedOnly(s, op) ==
    IF ~IsConnectedToEndpoint(s, op.endpoint_id) THEN "OutOfOrderApiCall" ELSE Pass
DisconnectFromEndpointGuard(s, op) ==
    IF ~IsConnectedToEndpoint(s, op.endpoint_id)
       /\ ~HasPendingConnectionToEndpoint(s, op.endpoint_id)
    THEN "OutOfOrderApiCall" ELSE Pass
\* (mutant) the device-centric disconnect turns a pending endpoint away
DisconnectFromDeviceV3Guard_ConnectedOnly(s, op) ==
    IF ~IsConnectedToEndpoint(s, op.endpoint_id) THEN "OutOfOrderApiCall" ELSE Pass
DisconnectFromDeviceV3Guard(s, op) ==
    IF ~IsConnectedToEndpoint(s, op.endpoint_id)
       /\ ~HasPendingConnectionToEndpoint(s, op.endpoint_id)
    THEN "OutOfOrderApiCall" ELSE Pass

Guard(s, op) ==
    CASE op.kind = "StartAdvertising" -> StartAdvertisingGuard(s, op)
      [] op.kind = "StartDiscovery" -> StartDiscoveryGuard(s, op)
      [] op.kind = "InjectEndpoint" -> InjectEndpointGuard(s, op)
      [] op.kind = "RequestConnection" -> RequestConnectionGuard(s, op)
      [] op.kind = "RequestConnectionV3" -> RequestConnectionV3Guard(s, op)
      [] op.kind = "AcceptConnection" -> AcceptConnectionGuard(s, op)
      [] op.kind = "AcceptConnectionV3" -> AcceptConnectionV3Guard(s, op)
      [] op.kind = "RejectConnection" -> RejectConnectionGuard(s, op)
      [] op.kind = "RejectConnectionV3" -> RejectConnectionV3Guard(s, op)
      [] op.kind = "InitiateBandwidthUpgrade" -> InitiateBandwidthUpgradeGuard(s, op)
      [] op.kind = "InitiateBandwidthUpgradeV3" -> InitiateBandwidthUpgradeV3Guard(s, op)
      [] op.kind = "SendPayload" -> SendPayloadGuard(s, op)
      [] op.kind = "SendPayloadV3" -> SendPayloadV3Guard(s, op)
      [] op.kind = "DisconnectFromEndpoint" -> DisconnectFromEndpointGuard(s, op)
      [] op.kind = "DisconnectFromDeviceV3" -> DisconnectFromDeviceV3Guard(s, op)
      [] OTHER -> Pass

\* --- bodies: what the queued closure does once its guard g is known.  The
\* result is the session it leaves, the ServiceController calls it made and the
\* Status values it gave to result_cb, both in order.
Res(s, tc, cb) == [s |-> s, tc |-> tc, cb |-> cb]
GuardFailed(s, g) == Res(s, <<>>, <<g>>)

StartAdvertisingBody(s, op, g, r) ==
    IF g # Pass THEN GuardFailed(s, g)
    ELSE LET res == SC_StartAdvertising(s, r)
         IN Res(res.s, <<TcCall("StartAdvertising", NoEndpoint, {}, res.status)>>, <<res.status>>)
\* (mutant) the controller is asked to stop whatever the flag says
StopAdvertisingBody_Always(s, op, g, r) ==
    Res(SC_StopAdvertising(s), <<TcCall("StopAdvertising", NoEndpoint, {}, Void)>>,
        <<Success>>)
StopAdvertisingBody(s, op, g, r) ==
    IF IsAdvertising(s)
    THEN Res(SC_StopAdvertising(s), <<TcCall("StopAdvertising", NoEndpoint, {}, Void)>>,
             <<Success>>)
    ELSE Res(s, <<>>, <<Success>>)
StartDiscoveryBody(s, op, g, r) ==
    IF g # Pass THEN GuardFailed(s, g)
    ELSE LET res == SC_StartDiscovery(s, r)
         IN Res(res.s, <<TcCall("StartDiscovery", NoEndpoint, {}, res.status)>>, <<res.status>>)
StopDiscoveryBody(s, op, g, r) ==
    IF IsDiscovering(s)
    THEN Res(SC_StopDiscovery(s), <<TcCall("StopDiscovery", NoEndpoint, {}, Void)>>,
             <<Success>>)
    ELSE Res(s, <<>>, <<Success>>)
\* (mutant) a failed check reports its Status and the body goes on
InjectEndpointBody_NoReturn(s, op, g, r) ==
    Res(s, <<TcCall("InjectEndpoint", NoEndpoint, {}, Void)>>,
        IF g # Pass THEN <<g, Success>> ELSE <<Success>>)
InjectEndpointBody(s, op, g, r) ==
    IF g # Pass THEN GuardFailed(s, g)
    ELSE Res(s, <<TcCall("InjectEndpoint", NoEndpoint, {}, Void)>>, <<Success>>)
\* (mutant) the body delegates without looking at the guard
RequestConnectionBody_NoGuard(s, op, g, r) ==
    LET res == SC_RequestConnection(s, op.endpoint_id, r)
        s2 == IF res.status # Success
              THEN CancelEndpoint(res.s, op.endpoint_id) ELSE res.s
    IN Res(s2, <<TcCall("RequestConnection", op.endpoint_id, {}, res.status)>>,
           <<res.status>>)
\* (mutant) the flag is registered by the queued body, not by the call
RequestConnectionBody_LateFlag(s, op, g, r) ==
    IF g # Pass THEN GuardFailed(s, g)
    ELSE LET res == SC_RequestConnection(AddCancellationFlag(s, op.endpoint_id),
                                         op.endpoint_id, r)
             s2 == IF res.status # Success
                   THEN CancelEndpoint(res.s, op.endpoint_id) ELSE res.s
         IN Res(s2, <<TcCall("RequestConnection", op.endpoint_id, {}, res.status)>>,
                <<res.status>>)
\* (mutant) a failed request is reported and nothing is rolled back
RequestConnectionBody_NoRollback(s, op, g, r) ==
    IF g # Pass THEN GuardFailed(s, g)
    ELSE LET res == SC_RequestConnection(s, op.endpoint_id, r)
         IN Res(res.s, <<TcCall("RequestConnection", op.endpoint_id, {}, res.status)>>,
                <<res.status>>)
RequestConnectionBody(s, op, g, r) ==
    IF g # Pass THEN GuardFailed(s, g)
    ELSE LET res == SC_RequestConnection(s, op.endpoint_id, r)
             s2 == IF res.status # Success
                   THEN CancelEndpoint(res.s, op.endpoint_id) ELSE res.s
         IN Res(s2, <<TcCall("RequestConnection", op.endpoint_id, {}, res.status)>>,
                <<res.status>>)
RequestConnectionV3Body(s, op, g, r) ==
    IF g # Pass THEN GuardFailed(s, g)
    ELSE LET res == SC_RequestConnection(s, op.endpoint_id, r)
             s2 == IF res.status # Success
                   THEN CancelEndpoint(res.s, op.endpoint_id) ELSE res.s
         IN Res(s2, <<TcCall("RequestConnection", op.endpoint_id, {}, res.status)>>,
                <<res.status>>)
\* (mutant) a refused answer is compensated for as a refused request is
AcceptConnectionBody_Compensates(s, op, g, r) ==
    IF g # Pass THEN GuardFailed(s, g)
    ELSE LET res == SC_AcceptConnection(s, op.endpoint_id, r)
             s2 == IF res.status # Success
                   THEN CancelEndpoint(res.s, op.endpoint_id) ELSE res.s
         IN Res(s2, <<TcCall("AcceptConnection", op.endpoint_id, {}, res.status)>>,
                <<res.status>>)
AcceptConnectionBody(s, op, g, r) ==
    IF g # Pass THEN GuardFailed(s, g)
    ELSE LET res == SC_AcceptConnection(s, op.endpoint_id, r)
         IN Res(res.s, <<TcCall("AcceptConnection", op.endpoint_id, {}, res.status)>>,
                <<res.status>>)
AcceptConnectionV3Body(s, op, g, r) ==
    IF g # Pass THEN GuardFailed(s, g)
    ELSE LET res == SC_AcceptConnection(s, op.endpoint_id, r)
         IN Res(res.s, <<TcCall("AcceptConnection", op.endpoint_id, {}, res.status)>>,
                <<res.status>>)
\* (mutant) a rejection its guard turns away drops the endpoint
RejectConnectionBody_DropsOnRefusal(s, op, g, r) ==
    IF g # Pass
    THEN Res(SC_DisconnectFromEndpoint(s, op.endpoint_id),
             <<TcCall("DisconnectFromEndpoint", op.endpoint_id, {}, Void)>>, <<g>>)
    ELSE LET res == SC_RejectConnection(s, op.endpoint_id, r)
         IN Res(res.s, <<TcCall("RejectConnection", op.endpoint_id, {}, res.status)>>,
                <<res.status>>)
RejectConnectionBody(s, op, g, r) ==
    IF g # Pass THEN GuardFailed(s, g)
    ELSE LET res == SC_RejectConnection(s, op.endpoint_id, r)
         IN Res(res.s, <<TcCall("RejectConnection", op.endpoint_id, {}, res.status)>>,
                <<res.status>>)
RejectConnectionV3Body(s, op, g, r) ==
    IF g # Pass THEN GuardFailed(s, g)
    ELSE LET res == SC_RejectConnection(s, op.endpoint_id, r)
         IN Res(res.s, <<TcCall("RejectConnection", op.endpoint_id, {}, res.status)>>,
                <<res.status>>)
InitiateBandwidthUpgradeBody(s, op, g, r) ==
    IF g # Pass THEN GuardFailed(s, g)
    ELSE Res(s, <<TcCall("InitiateBandwidthUpgrade", op.endpoint_id, {}, Void)>>,
             <<Success>>)
InitiateBandwidthUpgradeV3Body(s, op, g, r) ==
    IF g # Pass THEN GuardFailed(s, g)
    ELSE Res(s, <<TcCall("InitiateBandwidthUpgrade", op.endpoint_id, {}, Void)>>,
             <<Success>>)
\* (mutant) the payload is handed over once more
SendPayloadBody_Twice(s, op, g, r) ==
    IF g # Pass THEN GuardFailed(s, g)
    ELSE LET send == TcPayloadCall("SendPayload", op.endpoint_ids, Void, op.payload)
         IN Res(s, <<send, send>>, <<Success>>)
SendPayloadBody(s, op, g, r) ==
    IF g # Pass THEN GuardFailed(s, g)
    ELSE Res(s, <<TcPayloadCall("SendPayload", op.endpoint_ids, Void, op.payload)>>,
             <<Success>>)
SendPayloadV3Body(s, op, g, r) ==
    IF g # Pass THEN GuardFailed(s, g)
    ELSE Res(s, <<TcPayloadCall("SendPayload", {op.endpoint_id}, Void, op.payload)>>,
             <<Success>>)
\* (mutant) a payload is cancelled only for a session with a connection
CancelPayloadBody_Guarded(s, op, g, r) ==
    IF GetConnectedEndpoints(s) = {} THEN Res(s, <<>>, <<"PayloadUnknown">>)
    ELSE LET res == SC_CancelPayload(s, r)
         IN Res(res.s, <<TcPayloadCall("CancelPayload", {}, res.status, op.payload)>>,
                <<res.status>>)
CancelPayloadBody(s, op, g, r) ==
    LET res == SC_CancelPayload(s, r)
    IN Res(res.s, <<TcPayloadCall("CancelPayload", {}, res.status, op.payload)>>,
           <<res.status>>)
CancelPayloadV3Body(s, op, g, r) ==
    LET res == SC_CancelPayload(s, r)
    IN Res(res.s, <<TcPayloadCall("CancelPayload", {}, res.status, op.payload)>>,
           <<res.status>>)
\* (mutant) the endpoint is disconnected before the guard is looked at
DisconnectFromEndpointBody_Eager(s, op, g, r) ==
    Res(SC_DisconnectFromEndpoint(s, op.endpoint_id),
        <<TcCall("DisconnectFromEndpoint", op.endpoint_id, {}, Void)>>,
        IF g # Pass THEN <<g>> ELSE <<Success>>)
DisconnectFromEndpointBody(s, op, g, r) ==
    IF g # Pass THEN GuardFailed(s, g)
    ELSE Res(SC_DisconnectFromEndpoint(s, op.endpoint_id),
             <<TcCall("DisconnectFromEndpoint", op.endpoint_id, {}, Void)>>, <<Success>>)
DisconnectFromDeviceV3Body(s, op, g, r) ==
    IF g # Pass THEN GuardFailed(s, g)
    ELSE Res(SC_DisconnectFromEndpoint(s, op.endpoint_id),
             <<TcCall("DisconnectFromEndpoint", op.endpoint_id, {}, Void)>>, <<Success>>)
UpdateAdvertisingOptionsV3Body(s, op, g, r) ==
    Res(s, <<TcCall("UpdateAdvertisingOptions", NoEndpoint, {}, r)>>, <<r>>)
UpdateDiscoveryOptionsV3Body(s, op, g, r) ==
    Res(s, <<TcCall("UpdateDiscoveryOptions", NoEndpoint, {}, r)>>, <<r>>)
SetCustomSavePathBody(s, op, g, r) ==
    Res(s, <<TcCall("SetCustomSavePath", NoEndpoint, {}, Void)>>, <<Success>>)

\* Disconnects the endpoints of ids one after the other, in the order the
\* container yields them.
RECURSIVE DisconnectEach(_, _)
DisconnectEach(acc, ids) ==
    IF ids = {} THEN acc
    ELSE LET e == CHOOSE x \in ids : TRUE
         IN DisconnectEach(
                [acc EXCEPT !.s = SC_DisconnectFromEndpoint(@, e),
                            !.tc = Append(@, TcCall("DisconnectFromEndpoint", e, {}, Void))],
                ids \ {e})

\* (mutant) the session is reset before anything is disconnected or stopped
FinishClientSessionSteps_ResetFirst ==
    <<"Reset", "DisconnectPending", "DisconnectConnected", "StopAdvertising",
      "StopDiscovery", "ShutdownBwuManagerExecutors">>
\* (mutant) the loop over the connected endpoints is missing
FinishClientSessionSteps_PendingOnly ==
    <<"DisconnectPending", "StopAdvertising", "StopDiscovery",
      "ShutdownBwuManagerExecutors", "Reset">>
\* The statements of FinishClientSession, in program order.
FinishClientSessionSteps ==
    <<"DisconnectPending", "DisconnectConnected", "StopAdvertising",
      "StopDiscovery", "ShutdownBwuManagerExecutors", "Reset">>

\* One statement of FinishClientSession, run to its end on acc: the session,
\* the controller calls made so far, and a log of the statements with the
\* session each of them found.
FinishClientSessionStep(acc, step) ==
    LET a == [acc EXCEPT !.log = Append(@, [step |-> step, found |-> acc.s])]
    IN CASE step = "DisconnectPending" ->
                DisconnectEach(a, GetPendingConnectedEndpoints(a.s))
         [] step = "DisconnectConnected" ->
                DisconnectEach(a, GetConnectedEndpoints(a.s))
         [] step = "StopAdvertising" ->
                [a EXCEPT !.s = SC_StopAdvertising(@),
                          !.tc = Append(@, TcCall("StopAdvertising", NoEndpoint, {}, Void))]
         [] step = "StopDiscovery" ->
                [a EXCEPT !.s = SC_StopDiscovery(@),
                          !.tc = Append(@, TcCall("StopDiscovery", NoEndpoint, {}, Void))]
         [] step = "ShutdownBwuManagerExecutors" ->
                [a EXCEPT !.tc = Append(@, TcCall("ShutdownBwuManagerExecutors",
                                                  NoEndpoint, {}, Void))]
         [] step = "Reset" -> [a EXCEPT !.s = Reset(@)]

RECURSIVE FinishClientSessionFrom(_, _)
FinishClientSessionFrom(acc, steps) ==
    IF steps = <<>> THEN acc
    ELSE FinishClientSessionFrom(FinishClientSessionStep(acc, Head(steps)), Tail(steps))

FinishClientSession(s) ==
    FinishClientSessionFrom([s |-> s, tc |-> <<>>, log |-> <<>>], FinishClientSessionSteps)

StopAllEndpointsBody(s, op, g, r) ==
    LET f == FinishClientSession(s) IN Res(f.s, f.tc, <<Success>>)

Body(s, op, g, r) ==
    CASE op.kind = "StartAdvertising" -> StartAdvertisingBody(s, op, g, r)
      [] op.kind = "StopAdvertising" -> StopAdvertisingBody(s, op, g, r)
      [] op.kind = "StartDiscovery" -> StartDiscoveryBody(s, op, g, r)
      [] op.kind = "StopDiscovery" -> StopDiscoveryBody(s, op, g, r)
      [] op.kind = "InjectEndpoint" -> InjectEndpointBody(s, op, g, r)
      [] op.kind = "RequestConnection" -> RequestConnectionBody(s, op, g, r)
      [] op.kind = "RequestConnectionV3" -> RequestConnectionV3Body(s, op, g, r)
      [] op.kind = "AcceptConnection" -> AcceptConnectionBody(s, op, g, r)
      [] op.kind = "AcceptConnectionV3" -> AcceptConnectionV3Body(s, op, g, r)
      [] op.kind = "RejectConnection" -> RejectConnectionBody(s, op, g, r)
      [] op.kind = "RejectConnectionV3" -> RejectConnectionV3Body(s, op, g, r)
      [] op.kind = "InitiateBandwidthUpgrade" -> InitiateBandwidthUpgradeBody(s, op, g, r)
      [] op.kind = "InitiateBandwidthUpgradeV3" -> InitiateBandwidthUpgradeV3Body(s, op, g, r)
      [] op.kind = "SendPayload" -> SendPayloadBody(s, op, g, r)
      [] op.kind = "SendPayloadV3" -> SendPayloadV3Body(s, op, g, r)
      [] op.kind = "CancelPayload" -> CancelPayloadBody(s, op, g, r)
      [] op.kind = "CancelPayloadV3" -> CancelPayloadV3Body(s, op, g, r)
      [] op.kind = "DisconnectFromEndpoint" -> DisconnectFromEndpointBody(s, op, g, r)
      [] op.kind = "DisconnectFromDeviceV3" -> DisconnectFromDeviceV3Body(s, op, g, r)
      [] op.kind = "UpdateAdvertisingOptionsV3" -> UpdateAdvertisingOptionsV3Body(s, op, g, r)
      [] op.kind = "UpdateDiscoveryOptionsV3" -> UpdateDiscoveryOptionsV3Body(s, op, g, r)
      [] op.kind = "StopAllEndpoints" -> StopAllEndpointsBody(s, op, g, r)
      [] op.kind = "SetCustomSavePath" -> SetCustomSavePathBody(s, op, g, r)

\* ------------------------------------------------------------ Windows BleMedium
\* Copresence Service UUID 0xfef3 (little-endian)
kCopresenceServiceUuid == 62462
\* The data type of a Service Data section, 0x16.
kServiceDataType == 22
\* The most bytes an advertisement may have without Extended Advertising.
kMaxLegacyAdvertisementBytes == 27

\* DataWriter::WriteUInt16: the value's two bytes, high byte first.
WriteUInt16(v) == <<v \div 256, v % 256>>
\* The section StartAdvertising builds from advertisement_bytes.
ServiceDataSection(advertisement_bytes) ==
    [type |-> kServiceDataType,
     data |-> WriteUInt16(kCopresenceServiceUuid) \o advertisement_bytes]

\* PublisherState and WatcherState.
kStarted == "kStarted"
kStopped == "kStopped"
kError == "kError"
\* BluetoothError, by the cases of the handlers: Success, some of the named
\* errors, and a value the switch does not name.
BluetoothErrors == {"Success", "RadioNotAvailable", "ResourceInUse", "OtherError", "unnamed"}
NamedErrors ==
    {"RadioNotAvailable", "ResourceInUse", "DeviceNotConnected", "DisabledByPolicy",
     "DisabledByUser", "NotSupported", "TransportNotSupported", "ConsentRequired",
     "OtherError"}

\* A std::promise: set counts the set_value calls made on it since it was
\* made, 2 standing for the call on a satisfied promise, which throws
\* std::future_error.
NewPromise == [set |-> 0, value |-> ""]
Promises ==
    {"publisher_started_promise_", "publisher_stopped_promise_",
     "watcher_started_promise_", "watcher_stopped_promise_"}

\* The statements of the handlers.
SetValue(promise, value) == [do |-> "set_value", promise |-> promise, value |-> value]
Unregister(what) == [do |-> "unregister", promise |-> what, value |-> ""]

\* PublisherHandler for the event (status, error), with current what
\* publisher_.Status() gives: the statements it runs, in order.
PublisherHandler(status, error, current) ==
    LET failed == <<SetValue("publisher_started_promise_", kError),
                    SetValue("publisher_stopped_promise_", kError)>>
    IN CASE status = "Started" -> <<SetValue("publisher_started_promise_", kStarted)>>
         [] status = "Stopped" -> <<SetValue("publisher_stopped_promise_", kStopped),
                                    Unregister("publisher_")>>
         [] status = "Aborted" ->
              IF error = "Success"
              THEN (IF current = "Started"
                    THEN <<SetValue("publisher_started_promise_", kStarted)>>
                    ELSE <<>>)
                   \o (IF current = "Stopped"
                       THEN <<SetValue("publisher_stopped_promise_", kStopped),
                              Unregister("publisher_")>>
                       ELSE failed)
              ELSE failed
         [] OTHER -> <<>>

\* WatcherHandler for a Stopped event with the error, with current what
\* watcher_.Status() gives.
WatcherHandler(error, current) ==
    LET failed == <<SetValue("watcher_started_promise_", kError),
                    SetValue("watcher_stopped_promise_", kError)>>
    IN IF error \in NamedErrors THEN failed
       ELSE (IF current = "Started"
             THEN <<SetValue("watcher_started_promise_", kStarted)>>
             ELSE <<>>)
            \o (IF current = "Stopped"
                THEN <<SetValue("watcher_stopped_promise_", kStopped),
                       Unregister("watcher_")>>
                ELSE failed)

\* The statements run on the medium b one after the other; a set_value on a
\* satisfied promise throws and the statements after it are not run.
RECURSIVE RunStatements(_, _)
RunStatements(b, stmts) ==
    IF stmts = <<>> THEN b
    ELSE LET st == Head(stmts)
         IN IF st.do = "unregister"
            THEN RunStatements([b EXCEPT ![st.promise].handler = FALSE], Tail(stmts))
            ELSE IF b.promise[st.promise].set = 0
            THEN RunStatements(
                     [b EXCEPT !.promise[st.promise] = [set |-> 1, value |-> st.value]],
                     Tail(stmts))
            ELSE [b EXCEPT !.promise[st.promise].set = 2]

\* The latest StartAdvertising call: what it was given, the sections
\* advertisement_ held when it was made, and what it returned.
NoStartAdvertising ==
    [bytes |-> <<>>, fast |-> "", before |-> <<>>, returned |-> "none"]

\* BleMedium after construction.  at tells where each thread stands in a call
\* of the medium; a publisher or watcher that does not exist has status "null";
\* turn alternates with every turn of a scanning loop that finds nothing.
InitBle ==
    [mutex_ |-> "",
     at |-> [t \in Threads |-> "out"],
     calls |-> 0,
     advertisement_ |-> <<>>,
     publisher_ |-> [status |-> "null", advertisement |-> <<>>, handler |-> FALSE],
     watcher_ |-> [status |-> "null", handler |-> FALSE],
     is_watcher_started_ |-> FALSE,
     turn |-> 0,
     promise |-> [p \in Promises |-> NewPromise],
     start_advertising |-> NoStartAdvertising]

\* ------------------------------------------------------------ the router
\* service_controller_ is empty until the first GetServiceController();
\* destructor counts the statements of the destructor that have run, stopped
\* tells that the controller's Stop() has been called.
\* bwu_shutdown_under holds the clients that had a connected endpoint when the
\* controller's bandwidth-upgrade executors were shut down.
\* Where GetServiceController() is followed statement by statement: owned is
\* the object service_controller_ owns, constructed counts the default
\* controllers made, returned holds the objects GetServiceController() gave
\* out, and get tells where each thread stands in it.
NoController == [kind |-> "none", n |-> 0]
InjectedController == [kind |-> "injected", n |-> 0]
DefaultController(n) == [kind |-> "OfflineServiceController", n |-> n]
Getters == Threads \cup {"serializer"}
InitRouter ==
    [service_controller_ |-> FALSE, stopped |-> FALSE, destructor |-> 0,
     bwu_shutdown_under |-> {},
     owned |-> NoController, constructed |-> 0, returned |-> {},
     get |-> [w \in Getters |-> "out"]]
\* GetServiceController(): constructs the controller when there is none; tc
\* is the calls made through it.
GetServiceController(has, tc) == has \/ tc # <<>>

\* ShutdownBwuManagerExecutors() takes no client: it shuts down the executors
\* of the one controller, which serve the connections of every session.
ShutdownBwuManagerExecutors(before, tc, sessions) ==
    IF \E k \in DOMAIN tc : tc[k].m = "ShutdownBwuManagerExecutors"
    THEN before \cup {c \in Clients : GetConnectedEndpoints(sessions[c]) # {}}
    ELSE before

NoOp == MkOp("none", "-", NoEndpoint, {}, NoMetadata)
Idle == [op |-> NoOp, idx |-> 0, done |-> <<>>]

\* A body taken for execution, before it has run.
Running(op) ==
    [op |-> op, phase |-> "running", guard |-> Pass, pre |-> InitSession,
     post |-> InitSession, tc |-> <<>>, cb |-> <<>>, cancelled |-> FALSE,
     requested_before |-> FALSE, answered_before |-> "", after_stop |-> FALSE,
     overlapped |-> FALSE]

\* (mutant) the runnable is run where it is, on the calling thread
RouteToServiceController_Inline(op) ==
    [queue |-> queue, executing |-> executing \cup {Running(op)}]
\* (mutant) the runnable is handed over only when the serializer is idle
RouteToServiceController_WhenIdle(op) ==
    [queue |-> IF executing = {} /\ queue = <<>> THEN Append(queue, op) ELSE queue,
     executing |-> executing]
\* (mutant) the runnable is put in front of the ones that wait
RouteToServiceController_Front(op) ==
    [queue |-> <<op>> \o queue, executing |-> executing]
\* serializer_.Execute(name, runnable): the runnable joins the FIFO queue.
RouteToServiceController(op) ==
    [queue |-> Append(queue, op), executing |-> executing]

\* The queued closures a cancellation of client c's endpoints es is aimed at.
IsTargetFor(op, c, es) ==
    /\ op.kind \in RequestKinds \cup AcceptKinds
    /\ op.client = c
    /\ op.endpoint_id \in es

\* Another thread is inside a call that has cancelled endpoint e of client c
\* and has not routed its body yet.
CancelInFlight(t, c, e) ==
    \E u \in Threads \ {t} :
        /\ pc[u] # Idle
        /\ pc[u].op.client = c
        /\ \/ /\ pc[u].op.endpoint_id = e
              /\ \E k \in DOMAIN pc[u].done : pc[u].done[k] = "CancelEndpoint"
           \/ \E k \in DOMAIN pc[u].done : pc[u].done[k] = "CancelAllEndpoints"

\* Thread t is inside a method of the ServiceController.
InController(t) ==
    /\ pc[t] # Idle
    /\ pc[t].done # <<>>
    /\ pc[t].done[Len(pc[t].done)] \in ListeningMethods

\* One statement of an operation, run on the calling thread t.
StepEffect(t, op, idx, done) ==
    LET step == Steps(op.kind)[idx]
        c == op.client
        e == op.endpoint_id
        \* bookkeeping on the bodies that have not run yet
        Cancel(o, es) ==
            IF IsTargetFor(o, c, es)
            THEN [o EXCEPT !.cancelled_after = TRUE, !.readded = FALSE] ELSE o
        Readd(o) ==
            IF IsTargetFor(o, c, {e}) /\ o.cancelled_after
            THEN [o EXCEPT !.readded = TRUE] ELSE o
        Waiting(F(_)) ==
            /\ queue' = [i \in DOMAIN queue |-> F(queue[i])]
            /\ executing' = {IF x.phase = "running" THEN [x EXCEPT !.op = F(@)] ELSE x :
                                x \in executing}
        CancelOne(o) == Cancel(o, {e})
        CancelAll(o) == Cancel(o, Endpoints)
    IN /\ CASE step = "AddCancellationFlag" ->
                /\ session' = [session EXCEPT ![c] = AddCancellationFlag(@, e)]
                /\ Waiting(Readd)
                /\ UNCHANGED router
            [] step = "CancelEndpoint" ->
                /\ session' = [session EXCEPT ![c] = CancelEndpoint(@, e)]
                /\ Waiting(CancelOne)
                /\ UNCHANGED router
            [] step = "CancelAllEndpoints" ->
                /\ session' = [session EXCEPT ![c] = CancelAllEndpoints(@)]
                /\ Waiting(CancelAll)
                /\ UNCHANGED router
            [] step = "RouteToServiceController" ->
                /\ Len(queue) < MaxQueue
                /\ LET routed == RouteToServiceController(
                                     [op EXCEPT !.pre = done,
                                                !.late = CancelInFlight(t, c, e)])
                   IN /\ queue' = routed.queue
                      /\ executing' = routed.executing
                /\ UNCHANGED <<session, router>>
            [] step = "GetServiceController" ->
                /\ router' = [router EXCEPT !.service_controller_ = TRUE]
                /\ UNCHANGED <<session, queue, executing>>
            [] step \in ListeningMethods \cup {"return"} ->
                \* the caller is inside the controller's method until it returns
                UNCHANGED <<session, queue, executing, router>>
       /\ pc' = [pc EXCEPT ![t] =
                    IF idx = Len(Steps(op.kind)) THEN Idle
                    ELSE [op |-> [op EXCEPT !.pre_changed = @ \/ session'[c] # session[c]],
                          idx |-> idx + 1, done |-> Append(done, step)]]

\* A caller enters a router operation and runs its first statement.
Call(t, op) ==
    /\ pc[t] = Idle
    /\ router.destructor = 0
    /\ ncalls < MaxCalls
    /\ ncalls' = ncalls + 1
    /\ StepEffect(t, op, 1, <<>>)
    /\ UNCHANGED <<requested, answered_by, payloads, adapter, ble>>

\* The caller runs the next statement of the operation it is in.
CallStep(t) ==
    /\ pc[t] # Idle
    /\ StepEffect(t, pc[t].op, pc[t].idx, pc[t].done)
    /\ UNCHANGED <<ncalls, requested, answered_by, payloads, adapter, ble>>

\* The serializer takes the next body when it holds none.
SerializerStart ==
    /\ router.destructor < 2
    /\ executing = {}
    /\ queue # <<>>
    /\ executing' = {Running(Head(queue))}
    /\ queue' = Tail(queue)
    /\ UNCHANGED <<session, pc, ncalls, requested, answered_by, router, payloads, adapter, ble>>

RequestedAfter(before, op, res) ==
    IF op.kind \in RequestKinds
    THEN [before EXCEPT ![op.endpoint_id] =
             IF res.cb = <<Success>> THEN TRUE
             ELSE IF res.cb = <<"AlreadyConnectedToEndpoint">> THEN @ ELSE FALSE]
    ELSE IF op.kind \in DisconnectKinds /\ res.cb = <<Success>>
    THEN [before EXCEPT ![op.endpoint_id] = FALSE]
    ELSE IF op.kind = "StopAllEndpoints" THEN [e \in Endpoints |-> FALSE]
    ELSE before

\* What has become of the Payload objects callers gave to SendPayload: a
\* payload is numbered by the call it was given to.
SendKinds == {"SendPayload", "SendPayloadV3"}
InitPayloads == [p \in 1..MaxCalls |-> [handed |-> 0, called_back |-> FALSE]]
PayloadsAfter(before, op, res) ==
    IF op.kind \in SendKinds /\ op.payload \in DOMAIN before
    THEN [before EXCEPT ![op.payload] =
             [handed |-> @.handed + Cardinality({k \in DOMAIN res.tc :
                                                    /\ res.tc[k].m = "SendPayload"
                                                    /\ res.tc[k].payload = op.payload}),
              called_back |-> @.called_back \/ res.cb # <<>>]]
    ELSE before

\* The kind of answer the local side has on record for each endpoint.
AnsweredAfter(before, op, res) ==
    IF op.kind \in AcceptKinds \cup RejectKinds
    THEN IF res.cb = <<Success>>
         THEN [before EXCEPT ![op.endpoint_id] =
                  IF op.kind \in AcceptKinds THEN "accept" ELSE "reject"]
         ELSE before
    ELSE IF op.kind \in DisconnectKinds /\ res.cb = <<Success>>
    THEN [before EXCEPT ![op.endpoint_id] = ""]
    ELSE IF op.kind = "StopAllEndpoints" THEN [e \in Endpoints |-> ""]
    ELSE before

\* The controller keeps the ConnectionListener of a request it accepted.
BundlesAfter(before, op, res) ==
    IF op.kind = "RequestConnectionV3" /\ op.listener # 0 /\ res.cb = <<Success>>
    THEN before \cup {[listener |-> op.listener, client |-> op.client,
                        endpoint_id |-> op.endpoint_id]}
    ELSE before

\* A body runs from its guard to result_cb: ServiceController calls and
\* session updates, with r the outcome of the medium.
BodyRun(x, r) ==
    /\ x \in executing
    /\ x.phase = "running"
    /\ LET op == x.op
           c == op.client
           g == Guard(session[c], op)
           res == Body(session[c], op, g, r)
       IN /\ session' = [session EXCEPT ![c] = res.s]
          /\ requested' = [requested EXCEPT ![c] = RequestedAfter(@, op, res)]
          /\ answered_by' = [answered_by EXCEPT ![c] = AnsweredAfter(@, op, res)]
          /\ router' = [router EXCEPT
                            !.service_controller_ = GetServiceController(@, res.tc),
                            !.bwu_shutdown_under =
                                ShutdownBwuManagerExecutors(
                                    @, res.tc, [session EXCEPT ![c] = res.s])]
          /\ payloads' = PayloadsAfter(payloads, op, res)
          /\ adapter' = [adapter EXCEPT !.bundles = BundlesAfter(@, op, res)]
          /\ executing' = (executing \ {x}) \cup
                 {[op |-> op, phase |-> "finished", guard |-> g,
                   pre |-> session[c], post |-> res.s, tc |-> res.tc,
                   cb |-> res.cb,
                   cancelled |->
                       IF op.endpoint_id \in Endpoints
                       THEN Cancelled(session[c], op.endpoint_id) ELSE FALSE,
                   requested_before |->
                       IF op.endpoint_id \in Endpoints
                       THEN requested[c][op.endpoint_id] ELSE FALSE,
                   answered_before |->
                       IF op.endpoint_id \in Endpoints
                       THEN answered_by[c][op.endpoint_id] ELSE "",
                   after_stop |-> router.stopped /\ res.tc # <<>>,
                   overlapped |-> res.tc # <<>> /\ \E t \in Threads : InController(t)]}
    /\ UNCHANGED <<queue, pc, ncalls, ble>>

\* The body has returned; the serializer is free for the next one.
SerializerRetire(x) ==
    /\ x \in executing
    /\ x.phase = "finished"
    /\ executing' = executing \ {x}
    /\ UNCHANGED <<session, queue, pc, ncalls, requested, answered_by, router, payloads, adapter, ble>>

\* The remote side has accepted too: the pending endpoint becomes connected
\* (not one the local side has rejected).
EnvConnectionAccepted(c, e) ==
    /\ session[c].connections[e] = "pending"
    /\ e \in session[c].responded
    /\ answered_by[c][e] # "reject"
    /\ session' = [session EXCEPT ![c].connections[e] = "connected"]
    /\ UNCHANGED <<queue, executing, pc, ncalls, requested, answered_by, router, payloads, adapter, ble>>

\* The remote side (or the medium) drops the endpoint.
EnvDisconnected(c, e) ==
    /\ session[c].connections[e] # "none"
    /\ session' = [session EXCEPT ![c] = SC_DisconnectFromEndpoint(@, e)]
    /\ requested' = [requested EXCEPT ![c][e] = FALSE]
    /\ answered_by' = [answered_by EXCEPT ![c][e] = ""]
    /\ UNCHANGED <<queue, executing, pc, ncalls, router, payloads, adapter, ble>>

\* The statements of ~ServiceControllerRouter(), in program order.
DestructorSteps == <<"Stop", "Shutdown">>

\* The owner destroys the router (no caller is inside one of its operations);
\* the destructor runs its next statement.  Stop() is called when there is a
\* controller.  Shutdown() drains the serializer: the bodies submitted before
\* it are run, and it returns when none waits and none runs.
Destructor ==
    /\ \A t \in Threads : pc[t] = Idle
    /\ router.destructor < Len(DestructorSteps)
    /\ LET step == DestructorSteps[router.destructor + 1]
       IN CASE step = "Stop" ->
                   /\ router' = [router EXCEPT !.destructor = @ + 1,
                                               !.stopped = router.service_controller_]
                   /\ UNCHANGED queue
            [] step = "Shutdown" ->
                   /\ executing = {}
                   /\ queue = <<>>
                   /\ router' = [router EXCEPT !.destructor = @ + 1]
                   /\ UNCHANGED queue
    /\ UNCHANGED <<session, executing, pc, ncalls, requested, answered_by, payloads, adapter, ble>>

Init ==
    /\ session = [c \in Clients |-> InitSession]
    /\ queue = <<>>
    /\ executing = {}
    /\ pc = [t \in Threads |-> Idle]
    /\ ncalls = 0
    /\ requested = [c \in Clients |-> [e \in Endpoints |-> FALSE]]
    /\ answered_by = [c \in Clients |-> [e \in Endpoints |-> ""]]
    /\ router = InitRouter
    /\ payloads = InitPayloads
    /\ adapter = InitAdapter
    /\ ble = InitBle

\* The operations callers submit: client c1 requesting and disconnecting two
\* endpoints, answering one of them, and tearing the session down.
Op(kind, c, e) == MkOp(kind, c, e, {}, NoMetadata)
ConnOps ==
    {Op(k, "c1", e) : k \in {"RequestConnection", "DisconnectFromEndpoint"},
                      e \in {"e1", "e2"}}
    \cup {Op(k, "c1", "e1") : k \in {"RequestConnectionV3", "AcceptConnection",
                                      "RejectConnection"}}
    \cup {Op("StopAllEndpoints", "c1", NoEndpoint)}

Next ==
    \/ \E t \in Threads, op \in ConnOps : Call(t, op)
    \/ \E t \in Threads : CallStep(t)
    \/ SerializerStart
    \/ \E x \in executing, r \in TCStatuses : BodyRun(x, r)
    \/ \E x \in executing : SerializerRetire(x)
    \/ \E c \in Clients, e \in Endpoints : EnvConnectionAccepted(c, e)
    \/ \E c \in Clients, e \in Endpoints : EnvDisconnected(c, e)

Spec == Init /\ [][Next]_vars

\* ------------------------------------------------------------- properties
Finished == {x \in executing : x.phase = "finished"}
Ran(op, step) == \E k \in DOMAIN op.pre : op.pre[k] = step
InFlight == {queue[i] : i \in DOMAIN queue} \cup {x.op : x \in executing}

\* C1: at every instant at most one queued body is executing, whatever the
\* client sessions and endpoint ids of the submitted operations; so no body
\* starts its guard while another body is between its guard and its callback.
C1_OneBodyAtATime == Cardinality(executing) <= 1
\* A body is executing while another body, for another endpoint, waits behind
\* it and a caller is inside a third call.
C1_Witness ==
    \E x \in executing :
        /\ x.phase = "running"
        /\ queue # <<>>
        /\ Head(queue).endpoint_id # x.op.endpoint_id
        /\ \E t \in Threads : pc[t] # Idle

C5_CancelBeforeEnqueue ==
    /\ \A op \in InFlight :
           op.kind \in RejectKinds \cup DisconnectKinds => Ran(op, "CancelEndpoint")
    /\ \A j \in DOMAIN queue :
           queue[j].kind \in RejectKinds \cup DisconnectKinds =>
               \A o \in {queue[i] : i \in 1..(j - 1)}
                         \cup {x.op : x \in executing \ Finished} :
                   IsTargetFor(o, queue[j].client, {queue[j].endpoint_id})
                       => (o.cancelled_after \/ o.late)
C5_Witness ==
    /\ Len(queue) = 2
    /\ queue[1].kind = "AcceptConnection"
    /\ queue[2].kind = "RejectConnection"
    /\ queue[1].endpoint_id = queue[2].endpoint_id
    /\ queue[1].cancelled_after

\* C7: the RequestConnection body answers AlreadyConnectedToEndpoint, calling
\* no ServiceController method, exactly when the endpoint is pending or
\* connected as the body executes; otherwise it calls the controller's
\* RequestConnection exactly once.
C7_RequestGuard ==
    \A x \in Finished :
        x.op.kind \in RequestKinds =>
            LET e == x.op.endpoint_id
                busy == x.pre.connections[e] \in {"pending", "connected"}
            IN /\ busy => (x.cb = <<"AlreadyConnectedToEndpoint">> /\ x.tc = <<>>)
               /\ ~busy => /\ Len(x.tc) = 1
                           /\ x.tc[1].m = "RequestConnection"
                           /\ x.tc[1].e = e
                           /\ x.cb # <<"AlreadyConnectedToEndpoint">>
C7_Witness ==
    \E x \in Finished :
        /\ x.op.kind = "RequestConnection"
        /\ x.pre.connections[x.op.endpoint_id] = "pending"
        /\ x.cb = <<"AlreadyConnectedToEndpoint">>

C10_AcceptGuards ==
    \A x \in Finished :
        x.op.kind \in AcceptKinds =>
            LET e == x.op.endpoint_id
                connected == x.pre.connections[e] = "connected"
                answered == e \in x.pre.responded
            IN IF connected
               THEN x.cb = <<"AlreadyConnectedToEndpoint">> /\ x.tc = <<>>
               ELSE IF answered
               THEN x.cb = <<"OutOfOrderApiCall">> /\ x.tc = <<>>
               ELSE /\ Len(x.tc) = 1
                    /\ x.tc[1].m = "AcceptConnection"
                    /\ x.tc[1].e = e
                    /\ x.cb = <<x.tc[1].ret>>
\* Connected and already answered: both checks would fail, the first decides.
C10_Witness ==
    \E x \in Finished :
        /\ x.op.kind = "AcceptConnection"
        /\ x.pre.connections[x.op.endpoint_id] = "connected"
        /\ x.op.endpoint_id \in x.pre.responded
        /\ x.cb = <<"AlreadyConnectedToEndpoint">>

C8_FailedRequestRolledBack ==
    \A x \in Finished :
        (/\ x.op.kind \in RequestKinds
         /\ x.tc # <<>>
         /\ x.tc[1].ret # Success)
            => LET e == x.op.endpoint_id
                   retry == AddCancellationFlag(x.post, e)
               IN /\ x.cb = <<x.tc[1].ret>>
                  /\ x.post.connections[e] = "none"
                  /\ e \notin x.post.cancellation_flags
                  /\ Guard(retry, x.op) = Pass
                  /\ ~Cancelled(retry, e)
\* The medium failed a request whose flag was registered and not raised.
C8_Witness ==
    \E x \in Finished :
        /\ x.op.kind = "RequestConnection"
        /\ x.tc # <<>>
        /\ x.tc[1].ret = "BluetoothError"
        /\ x.op.endpoint_id \in x.pre.cancellation_flags
        /\ x.op.endpoint_id \notin x.post.cancellation_flags

\* --------------------------------------------- every operation, one caller
\* Metadata an injection may carry: valid, and one field off at a time.
Metadata(medium, mac_len, id_len, info_len) ==
    [medium |-> medium, mac_len |-> mac_len, id_len |-> id_len, info_len |-> info_len]
InjectInputs ==
    {Metadata(BLUETOOTH, kMacAddressLength, kEndpointIdLength, 1),
     Metadata(BLUETOOTH, kMacAddressLength, kEndpointIdLength, kMaxEndpointInfoLength),
     Metadata("BLE", kMacAddressLength, kEndpointIdLength, 1),
     Metadata(BLUETOOTH, kMacAddressLength - 1, kEndpointIdLength, 1),
     Metadata(BLUETOOTH, kMacAddressLength, kEndpointIdLength + 1, 1),
     Metadata(BLUETOOTH, kMacAddressLength, kEndpointIdLength, 0),
     Metadata(BLUETOOTH, kMacAddressLength, kEndpointIdLength, kMaxEndpointInfoLength + 1)}
AllOps ==
    {Op(k, "c1", "e1") : k \in EndpointKinds}
    \cup {Op(k, "c1", NoEndpoint) : k \in SessionKinds}
    \cup {MkOp("InjectEndpoint", "c1", NoEndpoint, {}, md) : md \in InjectInputs}
    \cup {MkOp("SendPayload", "c1", NoEndpoint, ids, NoMetadata) :
            ids \in {{}, {"e1"}, {"e1", "e2"}}}

\* A caller that waits for the callback of one operation before it submits
\* the next.
CallAndWait(op) ==
    /\ queue = <<>>
    /\ executing = {}
    /\ Call("t1", op)

NextAll ==
    \/ \E op \in AllOps : CallAndWait(op)
    \/ CallStep("t1")
    \/ SerializerStart
    \/ \E x \in executing, r \in TCStatuses : BodyRun(x, r)
    \/ \E x \in executing : SerializerRetire(x)
    \/ \E e \in Endpoints : EnvConnectionAccepted("c1", e)
    \/ \E e \in Endpoints : EnvDisconnected("c1", e)

SpecAll == Init /\ [][NextAll]_vars

\* C2: every body that has executed has invoked result_cb exactly once,
\* whichever path it took (guard failure, controller failure, success), and a
\* body that has not run yet has not invoked it.
C2_CallbackExactlyOnce ==
    \A x \in executing :
        /\ x.phase = "finished" => Len(x.cb) = 1
        /\ x.phase = "running" => x.cb = <<>>
\* A body on the controller-failure path.
C2_Witness ==
    \E x \in Finished :
        /\ x.tc # <<>>
        /\ x.tc[1].ret = "BluetoothError"
        /\ x.cb = <<"BluetoothError">>

\* C6 as stated: an operation whose guard fails changes nothing between its
\* call and its callback: no controller call, and the session (cancellation
\* flags included) as it was before the call.
C6_GuardFailureChangesNothing ==
    \A x \in Finished :
        x.guard # Pass =>
            (x.tc = <<>> /\ x.post = x.pre /\ ~x.op.pre_changed)
\* C6 (amended): the queued body of an operation whose guard fails makes no
\* controller call, leaves the session as it found it and reports the guard's
\* Status; the statement the call ran before queuing (AddCancellationFlag,
\* CancelEndpoint) may have changed the cancellation flags.
C6_GuardFailureBodyInert ==
    \A x \in Finished :
        x.guard # Pass => (x.tc = <<>> /\ x.post = x.pre /\ x.cb = <<x.guard>>)
\* A rejection turned away by its guard whose pre-queue step had already
\* cancelled the endpoint.
C6_Witness ==
    \E x \in Finished :
        /\ x.op.kind = "RejectConnection"
        /\ x.guard # Pass
        /\ x.op.pre_changed
        /\ x.post = x.pre


\* The answer of the other kind that a body of this kind comes second to.
OtherAnswer(kind) == IF kind \in AcceptKinds THEN "reject" ELSE "accept"

C12_DisconnectGuard ==
    \A x \in Finished :
        x.op.kind \in DisconnectKinds =>
            LET e == x.op.endpoint_id
                related == x.pre.connections[e] \in {"pending", "connected"}
            IN IF related
               THEN /\ Len(x.tc) = 1
                    /\ x.tc[1].m = "DisconnectFromEndpoint"
                    /\ x.tc[1].e = e
                    /\ x.cb = <<Success>>
               ELSE x.tc = <<>> /\ x.cb = <<"OutOfOrderApiCall">>
\* A pending endpoint is disconnected.
C12_Witness ==
    \E x \in Finished :
        /\ x.op.kind = "DisconnectFromEndpoint"
        /\ x.pre.connections[x.op.endpoint_id] = "pending"
        /\ x.post.connections[x.op.endpoint_id] = "none"
        /\ x.cb = <<Success>>


\* ------------------------------------------ teardown of any session state
\* The sessions a client may be in when it stops all endpoints: any relation
\* for each endpoint, an answer on record only for an endpoint with a relation
\* (and for every connected one), any registered cancellation flags.
TeardownSessions ==
    {s \in [advertising : BOOLEAN, discovering : BOOLEAN,
            connections : [Endpoints -> {"none", "pending", "connected"}],
            responded : SUBSET Endpoints,
            cancellation_flags : SUBSET Endpoints] :
        \A e \in Endpoints :
            /\ e \in s.responded => s.connections[e] # "none"
            /\ s.connections[e] = "connected" => e \in s.responded}

InitTeardown ==
    \E s \in TeardownSessions :
        /\ session = [c \in Clients |-> IF c = "c1" THEN s ELSE InitSession]
        /\ queue = <<>>
        /\ executing = {}
        /\ pc = [t \in Threads |-> Idle]
        /\ ncalls = 0
        /\ requested = [c \in Clients |-> [e \in Endpoints |->
                            c = "c1" /\ s.connections[e] # "none"]]
        /\ answered_by = [c \in Clients |-> [e \in Endpoints |->
                            IF c = "c1" /\ e \in s.responded THEN "accept" ELSE ""]]
        /\ router = [InitRouter EXCEPT !.service_controller_ =
                        \/ s.advertising
                        \/ s.discovering
                        \/ \E e \in Endpoints : s.connections[e] # "none"]
        /\ payloads = InitPayloads
        /\ adapter = InitAdapter
        /\ ble = InitBle

\* The client stops all endpoints, once.
CallStopAllEndpoints ==
    /\ ncalls = 0
    /\ Call("t1", Op("StopAllEndpoints", "c1", NoEndpoint))

NextTeardown ==
    \/ CallStopAllEndpoints
    \/ CallStep("t1")
    \/ SerializerStart
    \/ \E x \in executing, r \in TCStatuses : BodyRun(x, r)
    \/ \E x \in executing : SerializerRetire(x)
    \/ \E e \in Endpoints : EnvConnectionAccepted("c1", e)
    \/ \E e \in Endpoints : EnvDisconnected("c1", e)

SpecTeardown == InitTeardown /\ [][NextTeardown]_vars

\* The controller calls of tc from position i to position j.
Calls(tc, i, j) == {tc[k] : k \in {n \in DOMAIN tc : i <= n /\ n <= j}}
HasRelation(s) == {e \in Endpoints : s.connections[e] # "none"}

\* C13: FinishClientSession, run by the StopAllEndpoints body, disconnects
\* every pending endpoint, then every connected endpoint, then stops
\* advertising, then discovery, then shuts the bandwidth-upgrade executors
\* down, and resets the session last: each statement finds the work of the
\* ones before it done, and the controller calls come in that order.
C13_TeardownOrder ==
    \A x \in Finished :
        x.op.kind = "StopAllEndpoints" =>
            LET f == FinishClientSession(x.pre)
                pending == GetPendingConnectedEndpoints(x.pre)
                connected == GetConnectedEndpoints(x.pre)
                np == Cardinality(pending)
                nc == Cardinality(connected)
            IN /\ x.tc = f.tc
               /\ x.post = f.s
               /\ [i \in DOMAIN f.log |-> f.log[i].step] =
                      <<"DisconnectPending", "DisconnectConnected", "StopAdvertising",
                        "StopDiscovery", "ShutdownBwuManagerExecutors", "Reset">>
               /\ Len(x.tc) = np + nc + 3
               /\ \A call \in Calls(x.tc, 1, np) :
                      call.m = "DisconnectFromEndpoint" /\ call.e \in pending
               /\ \A call \in Calls(x.tc, np + 1, np + nc) :
                      call.m = "DisconnectFromEndpoint" /\ call.e \in connected
               /\ x.tc[np + nc + 1].m = "StopAdvertising"
               /\ x.tc[np + nc + 2].m = "StopDiscovery"
               /\ x.tc[np + nc + 3].m = "ShutdownBwuManagerExecutors"
               /\ f.log[1].found = x.pre
               /\ GetPendingConnectedEndpoints(f.log[2].found) = {}
               /\ GetConnectedEndpoints(f.log[2].found) = connected
               /\ HasRelation(f.log[3].found) = {}
               /\ ~IsAdvertising(f.log[4].found)
               /\ ~IsDiscovering(f.log[5].found)
               /\ \A i \in 1..5 : f.log[i + 1].found.cancellation_flags
                                     \subseteq x.pre.cancellation_flags
               /\ HasRelation(f.log[6].found) = {}
               /\ ~IsAdvertising(f.log[6].found) /\ ~IsDiscovering(f.log[6].found)
               /\ x.post = InitSession
\* One pending and two connected endpoints, advertising and discovering.
C13_Witness ==
    \E x \in Finished :
        /\ x.op.kind = "StopAllEndpoints"
        /\ Cardinality(GetPendingConnectedEndpoints(x.pre)) = 1
        /\ Cardinality(GetConnectedEndpoints(x.pre)) = 2
        /\ IsAdvertising(x.pre) /\ IsDiscovering(x.pre)
        /\ Len(x.tc) = 6
        /\ x.post = InitSession

\* C14: StopAllEndpoints runs CancelAllEndpoints on the calling thread before
\* it routes its body, so every endpoint is observed as cancelled while the
\* body waits; when the body has run, whatever session it found, each endpoint
\* that was pending or connected has been disconnected exactly once and no
\* other, the session is neither advertising nor discovering, no endpoint has
\* a relation or an answer on record, and result_cb got Success.
C14_StopAllEndpoints ==
    /\ \A t \in Threads :
           (pc[t] # Idle /\ pc[t].op.kind = "StopAllEndpoints")
               => pc[t].done = <<"CancelAllEndpoints">>
    /\ \A op \in InFlight :
           op.kind = "StopAllEndpoints" => Ran(op, "CancelAllEndpoints")
    /\ \A op \in {queue[i] : i \in DOMAIN queue} \cup {x.op : x \in executing \ Finished} :
           op.kind = "StopAllEndpoints"
               => \A e \in Endpoints : Cancelled(session[op.client], e)
    /\ \A x \in Finished :
           x.op.kind = "StopAllEndpoints" =>
               /\ \A e \in Endpoints :
                      Cardinality({k \in DOMAIN x.tc :
                                      /\ x.tc[k].m = "DisconnectFromEndpoint"
                                      /\ x.tc[k].e = e})
                          = IF e \in HasRelation(x.pre) THEN 1 ELSE 0
               /\ ~IsAdvertising(x.post)
               /\ ~IsDiscovering(x.post)
               /\ HasRelation(x.post) = {}
               /\ x.post.responded = {}
               /\ x.cb = <<Success>>
\* Two connected endpoints and a pending one, each disconnected.
C14_Witness ==
    \E x \in Finished :
        /\ x.op.kind = "StopAllEndpoints"
        /\ Cardinality(GetConnectedEndpoints(x.pre)) = 2
        /\ Cardinality(GetPendingConnectedEndpoints(x.pre)) = 1
        /\ {x.tc[k].e : k \in 1..3} = Endpoints
        /\ HasRelation(x.post) = {}
        /\ x.cb = <<Success>>


\* ---------------------------------------------------- the router goes down
\* A client requests connections and tears its session down while the owner
\* destroys the router.
DownOps ==
    {Op("RequestConnection", "c1", e) : e \in {"e1", "e2"}}
    \cup {Op("StopAllEndpoints", "c1", NoEndpoint)}

NextDown ==
    \/ \E op \in DownOps : Call("t1", op)
    \/ CallStep("t1")
    \/ SerializerStart
    \/ \E x \in executing, r \in TCStatuses : BodyRun(x, r)
    \/ \E x \in executing : SerializerRetire(x)
    \/ Destructor

SpecDown == Init /\ [][NextDown]_vars

\* C15: the destructor calls the controller's Stop() before the serializer's
\* Shutdown(), and no queued body calls a ServiceController method once Stop()
\* has been called.
C15_NoBodyAfterStop ==
    /\ router.stopped => router.destructor >= 1
    /\ router.destructor = 2 => queue = <<>>
    /\ \A x \in Finished : ~x.after_stop


\* ------------------------------------------- listening, next to the queue
\* Callers start and stop listening for incoming connections while others
\* request a connection or start advertising.
ListenOps ==
    {Op(k, "c1", NoEndpoint) : k \in ListeningKinds \cup {"StartAdvertising"}}
    \cup {Op("RequestConnection", "c1", "e1")}

NextListen ==
    \/ \E t \in Threads, op \in ListenOps : Call(t, op)
    \/ \E t \in Threads : CallStep(t)
    \/ SerializerStart
    \/ \E x \in executing, r \in TCStatuses : BodyRun(x, r)
    \/ \E x \in executing : SerializerRetire(x)

SpecListen == Init /\ [][NextListen]_vars

\* C16: the router calls the ServiceController from one thread at a time: no
\* two bodies execute together, and no queued body calls the controller while
\* a caller of the listening pair is inside one of its methods.
C16_OneThreadInController ==
    /\ Cardinality(executing) <= 1
    /\ \A x \in Finished : ~x.overlapped


\* ------------------------------------------------- callers that are followed
\* Two callers submit operations on endpoint e1 (and one on e2); each call is
\* stamped with its caller and its number.
OrderOps ==
    {Op(k, "c1", "e1") : k \in {"RequestConnection", "AcceptConnection",
                                "DisconnectFromEndpoint"}}
    \cup {Op("RequestConnection", "c1", "e2")}

CallStamped(t, op) == Call(t, [op EXCEPT !.caller = t, !.seq = ncalls + 1])

NextOrder ==
    \/ \E t \in Threads, op \in OrderOps : CallStamped(t, op)
    \/ \E t \in Threads : CallStep(t)
    \/ SerializerStart
    \/ \E x \in executing, r \in TCStatuses : BodyRun(x, r)
    \/ \E x \in executing : SerializerRetire(x)

SpecOrder == Init /\ [][NextOrder]_vars

\* Call a came before call b of the same caller, for the same endpoint.
Before(a, b) ==
    /\ a.caller = b.caller
    /\ a.endpoint_id = b.endpoint_id
    /\ a.seq < b.seq
Waits == {queue[i] : i \in DOMAIN queue}
Stamp(o) == <<o.caller, o.seq>>

\* C17: bodies one caller submitted for one endpoint execute in the order of
\* its calls.  A body waits behind every earlier one that still waits, no body
\* is taken for execution while an earlier one waits or executes, a body
\* leaves the queue only to be executed and leaves execution only after its
\* callback: so the earlier body has completed when the later one starts.
C17_SubmissionOrder ==
    /\ [](/\ \A i, j \in DOMAIN queue : Before(queue[j], queue[i]) => j < i
          /\ \A x \in executing : \A b \in Waits : ~Before(b, x.op)
          /\ Cardinality(executing) <= 1)
    /\ [][/\ \A b \in Waits :
                 \/ \E w \in Waits' : Stamp(w) = Stamp(b)
                 \/ \E y \in executing' : Stamp(y.op) = Stamp(b) /\ y.phase = "running"
          /\ \A x \in executing :
                 \/ \E y \in executing' :
                        /\ Stamp(y.op) = Stamp(x.op)
                        /\ y.phase \in {x.phase, "finished"}
                 \/ x.phase = "finished" /\ Len(x.cb) = 1]_vars
\* A request, its acceptance and the disconnection, called in this order by one
\* caller: the first executes while the other two wait in order.
C17_Witness ==
    \E x \in executing :
        /\ Len(queue) = 2
        /\ Before(x.op, queue[1])
        /\ Before(queue[1], queue[2])


\* The cancellation of endpoint e of client c is raised while the endpoint has
\* a relation.
Raised(c, e) ==
    /\ session[c].connections[e] # "none"
    /\ Cancelled(session[c], e)

\* C18: once the cancellation of an endpoint is raised, no step of a caller or
\* of the serializer lowers or replaces it while the endpoint keeps a relation:
\* it stays raised until the endpoint is back at no-relation.
C18_RaisedStaysRaised ==
    [][\A c \in Clients, e \in Endpoints :
           (Raised(c, e) /\ session'[c].connections[e] # "none") => Raised(c, e)']_vars


\* The moves of an endpoint's relation: requested, accepted by both sides,
\* disconnected.
RelationMoves ==
    {<<"none", "pending">>, <<"pending", "connected">>,
     <<"pending", "none">>, <<"connected", "none">>}

\* C19 (I1): in every state, each endpoint of each session has exactly one of
\* the three relations, as the router's queries report it (never both pending
\* and connected), and the relation only moves none -> pending -> connected
\* and back to none: no body makes a pending or connected endpoint pending
\* again, and teardown leaves exactly no-relation.
C19_ExactlyOneRelation ==
    /\ [](\A c \in Clients, e \in Endpoints :
             LET s == session[c]
             IN /\ Cardinality({q \in {"none", "pending", "connected"} :
                                   \/ q = "pending" /\ HasPendingConnectionToEndpoint(s, e)
                                   \/ q = "connected" /\ IsConnectedToEndpoint(s, e)
                                   \/ q = "none" /\ s.connections[e] = "none"}) = 1
                /\ GetPendingConnectedEndpoints(s) \cap GetConnectedEndpoints(s) = {})
    /\ [][\A c \in Clients, e \in Endpoints :
             session'[c].connections[e] # session[c].connections[e]
                 => <<session[c].connections[e], session'[c].connections[e]>>
                        \in RelationMoves]_vars
\* Between two bodies: an endpoint that went from no-relation to pending to
\* connected, and a new request for it waiting.
C19_Witness ==
    /\ executing = {}
    /\ session["c1"].connections["e1"] = "connected"
    /\ requested["c1"]["e1"]
    /\ \E i \in DOMAIN queue :
           queue[i].kind \in RequestKinds /\ queue[i].endpoint_id = "e1"


\* C20 (I2): the local-endpoint-has-answered flag of an endpoint, once set, is
\* cleared only by the body of a disconnection of that endpoint, by the body of
\* StopAllEndpoints, or when the endpoint is dropped from outside; no other
\* step of a caller or body clears it, and an AcceptConnection or
\* RejectConnection body, failed or turned away by its guard, leaves every
\* answer in place.
C20_AnswerKept ==
    /\ [](\A x \in Finished :
             x.op.kind \in AcceptKinds \cup RejectKinds
                 => x.pre.responded \subseteq x.post.responded)
    /\ [][\A c \in Clients, e \in Endpoints :
             (e \in session[c].responded /\ e \notin session'[c].responded)
                 => \/ \E x \in executing' \ executing :
                          /\ x.phase = "finished"
                          /\ x.op.client = c
                          /\ \/ x.op.kind = "StopAllEndpoints"
                             \/ /\ x.op.kind \in DisconnectKinds
                                /\ x.op.endpoint_id = e
                                /\ x.cb = <<Success>>
                    \/ /\ executing' = executing
                       /\ queue' = queue
                       /\ pc' = pc
                       /\ session'[c].connections[e] = "none"]_vars
\* A second answer is turned away and the answer on record stays.
C20_Witness ==
    \E x \in Finished :
        /\ x.op.kind = "RejectConnection"
        /\ x.guard = "OutOfOrderApiCall"
        /\ x.op.endpoint_id \in x.pre.responded
        /\ x.op.endpoint_id \in session[x.op.client].responded


\* ------------------------------- advertising and discovery, back to back
\* A caller that submits start and stop calls without waiting for their
\* callbacks; each queued closure remembers the session its call found.
AdvOps ==
    {Op(k, "c1", NoEndpoint) :
        k \in {"StartAdvertising", "StopAdvertising", "StartDiscovery", "StopDiscovery"}}
CallAt(t, op) == Call(t, [op EXCEPT !.at_call = session[op.client]])

NextAdv ==
    \/ \E op \in AdvOps : CallAt("t1", op)
    \/ SerializerStart
    \/ \E x \in executing, r \in TCStatuses : BodyRun(x, r)
    \/ \E x \in executing : SerializerRetire(x)

SpecAdv == Init /\ [][NextAdv]_vars

\* The flag a start or stop operation looks at, and the Status a start gives
\* when the flag is set.
FlagOf(kind, s) ==
    IF kind \in {"StartAdvertising", "StopAdvertising"}
    THEN IsAdvertising(s) ELSE IsDiscovering(s)
AlreadyStatus(kind) ==
    IF kind = "StartAdvertising" THEN "AlreadyAdvertising" ELSE "AlreadyDiscovering"

\* C21: StartAdvertising (StartDiscovery) decides on the advertising
\* (discovery) flag as the body finds it when it executes, not as the call
\* found it: with the flag set it reports AlreadyAdvertising
\* (AlreadyDiscovering) and calls no controller method; with the flag clear it
\* calls the controller's start method once and reports the Status that
\* returned, unchanged.  So a start queued on an idle session behind a start
\* that succeeded reports the Already status.
C21_StartDecidesAtExecution ==
    \A x \in Finished :
        x.op.kind \in {"StartAdvertising", "StartDiscovery"} =>
            IF FlagOf(x.op.kind, x.pre)
            THEN /\ x.cb = <<AlreadyStatus(x.op.kind)>>
                 /\ x.tc = <<>>
                 /\ x.post = x.pre
            ELSE /\ Len(x.tc) = 1
                 /\ x.tc[1].m = x.op.kind
                 /\ x.cb = <<x.tc[1].ret>>
                 /\ x.cb[1] \in TCStatuses
\* The second of two starts submitted on an idle session: its call found the
\* flag clear, its body found it set.
C21_Witness ==
    \E x \in Finished :
        /\ x.op.kind = "StartAdvertising"
        /\ ~IsAdvertising(x.op.at_call)
        /\ IsAdvertising(x.pre)
        /\ x.cb = <<"AlreadyAdvertising">>

\* C22: StopAdvertising and StopDiscovery always report Success; the
\* controller's stop method is called exactly when the flag is set as the
\* body executes, and the body leaves the flag clear, so the next stop in a
\* row makes no controller call.
C22_StopIdempotent ==
    \A x \in Finished :
        x.op.kind \in {"StopAdvertising", "StopDiscovery"} =>
            /\ x.cb = <<Success>>
            /\ IF FlagOf(x.op.kind, x.pre)
               THEN x.tc = <<TcCall(x.op.kind, NoEndpoint, {}, Void)>>
               ELSE x.tc = <<>> /\ x.post = x.pre
            /\ ~FlagOf(x.op.kind, x.post)
\* The second of two stops submitted while advertising: its call found the
\* flag set, its body found it clear and called nothing.
C22_Witness ==
    \E x \in Finished :
        /\ x.op.kind = "StopAdvertising"
        /\ IsAdvertising(x.op.at_call)
        /\ ~IsAdvertising(x.pre)
        /\ x.tc = <<>>
        /\ x.cb = <<Success>>


\* ------------------------------------------------- injection of endpoints
\* Metadata with every field at, below and above what the router accepts, in
\* every combination.
InjectGrid ==
    {Metadata(medium, mac_len, id_len, info_len) :
        medium \in {BLUETOOTH, "BLE"},
        mac_len \in {kMacAddressLength - 1, kMacAddressLength, kMacAddressLength + 1},
        id_len \in {kEndpointIdLength - 1, kEndpointIdLength, kEndpointIdLength + 1},
        info_len \in {0, 1, kMaxEndpointInfoLength, kMaxEndpointInfoLength + 1}}
InjectOps ==
    {MkOp("InjectEndpoint", "c1", NoEndpoint, {}, md) : md \in InjectGrid}
    \cup {Op(k, "c1", NoEndpoint) : k \in {"StartDiscovery", "StopDiscovery"}}

NextInject ==
    \/ \E op \in InjectOps : CallAndWait(op)
    \/ SerializerStart
    \/ \E x \in executing, r \in TCStatuses : BodyRun(x, r)
    \/ \E x \in executing : SerializerRetire(x)

SpecInject == Init /\ [][NextInject]_vars

\* The metadata fails one of the checks a, b, c.
Malformed(md) ==
    \/ md.medium # BLUETOOTH
    \/ md.mac_len # kMacAddressLength
    \/ md.id_len # kEndpointIdLength
    \/ md.info_len < 1
    \/ md.info_len > kMaxEndpointInfoLength

\* C23: InjectEndpoint reports Error when the metadata fails one of (a) medium
\* Bluetooth with a 6-byte address, (b) 4-byte endpoint id, (c) endpoint info
\* of 1 to 131 bytes, whether the session discovers or not; OutOfOrderApiCall
\* when the metadata is well formed and the session does not discover; Success
\* otherwise.  The controller's InjectEndpoint is called exactly when the
\* result is Success.
C23_InjectChecksInOrder ==
    \A x \in Finished :
        x.op.kind = "InjectEndpoint" =>
            /\ x.cb = << IF Malformed(x.op.metadata) THEN "Error"
                         ELSE IF ~IsDiscovering(x.pre) THEN "OutOfOrderApiCall"
                         ELSE Success >>
            /\ IF x.cb = <<Success>>
               THEN x.tc = <<TcCall("InjectEndpoint", NoEndpoint, {}, Void)>>
               ELSE x.tc = <<>>
            /\ x.post = x.pre
\* Malformed metadata (empty endpoint info only) on a session that does not
\* discover.
C23_Witness ==
    \E x \in Finished :
        /\ x.op.kind = "InjectEndpoint"
        /\ x.op.metadata = Metadata(BLUETOOTH, kMacAddressLength, kEndpointIdLength, 0)
        /\ ~IsDiscovering(x.pre)
        /\ x.cb = <<"Error">>
        /\ x.tc = <<>>


\* --------------------------------------- one operation, any session state
\* The sessions an operation may find: TeardownSessions with the third
\* endpoint left alone.
AnySessions ==
    {s \in TeardownSessions :
        s.connections["e3"] = "none" /\ "e3" \notin s.cancellation_flags}

InitAny ==
    \E s \in AnySessions :
        /\ session = [c \in Clients |-> IF c = "c1" THEN s ELSE InitSession]
        /\ queue = <<>>
        /\ executing = {}
        /\ pc = [t \in Threads |-> Idle]
        /\ ncalls = 0
        /\ requested = [c \in Clients |-> [e \in Endpoints |->
                            c = "c1" /\ s.connections[e] # "none"]]
        /\ answered_by = [c \in Clients |-> [e \in Endpoints |->
                            IF c = "c1" /\ e \in s.responded THEN "accept" ELSE ""]]
        /\ router = [InitRouter EXCEPT !.service_controller_ =
                        \/ s.advertising
                        \/ s.discovering
                        \/ \E e \in Endpoints : s.connections[e] # "none"]
        /\ payloads = InitPayloads
        /\ adapter = InitAdapter
        /\ ble = InitBle

PayloadIds == {1, 2}
WithPayload(op, p) == [op EXCEPT !.payload = p]
\* The operations that are not about making or ending a connection, and the
\* two answers.
SessionOps ==
    {Op(k, "c1", "e1") :
        k \in {"InitiateBandwidthUpgrade", "InitiateBandwidthUpgradeV3",
               "AcceptConnection", "RejectConnection"}}
    \cup {Op(k, "c1", NoEndpoint) : k \in {"StartAdvertising", "StartDiscovery"}}
    \cup {WithPayload(Op(k, "c1", NoEndpoint), p) :
            k \in {"CancelPayload", "CancelPayloadV3"}, p \in PayloadIds}
    \cup {WithPayload(MkOp("SendPayload", "c1", NoEndpoint, ids, NoMetadata), 1) :
            ids \in SUBSET {"e1", "e2"}}
    \cup {WithPayload(Op("SendPayloadV3", "c1", "e1"), 1)}

\* The client makes one call.
CallOnce(op) ==
    /\ ncalls = 0
    /\ Call("t1", op)

NextAny ==
    \/ \E op \in SessionOps : CallOnce(op)
    \/ CallStep("t1")
    \/ SerializerStart
    \/ \E x \in executing, r \in TCStatuses : BodyRun(x, r)
    \/ \E x \in executing : SerializerRetire(x)
    \/ \E e \in Endpoints : EnvConnectionAccepted("c1", e)
    \/ \E e \in Endpoints : EnvDisconnected("c1", e)

SpecAny == InitAny /\ [][NextAny]_vars

\* C24: InitiateBandwidthUpgrade reports OutOfOrderApiCall and calls nothing
\* unless the endpoint is connected as the body executes (a pending endpoint
\* is turned away too); for a connected endpoint it triggers the upgrade once
\* and reports Success, whatever comes of the upgrade.
C24_UpgradeNeedsConnection ==
    \A x \in Finished :
        x.op.kind \in {"InitiateBandwidthUpgrade", "InitiateBandwidthUpgradeV3"} =>
            /\ x.post = x.pre
            /\ IF x.pre.connections[x.op.endpoint_id] = "connected"
               THEN /\ x.tc = <<TcCall("InitiateBandwidthUpgrade", x.op.endpoint_id,
                                       {}, Void)>>
                    /\ x.cb = <<Success>>
               ELSE /\ x.tc = <<>>
                    /\ x.cb = <<"OutOfOrderApiCall">>
\* An upgrade asked for a pending endpoint.
C24_Witness ==
    \E x \in Finished :
        /\ x.op.kind = "InitiateBandwidthUpgrade"
        /\ x.pre.connections[x.op.endpoint_id] = "pending"
        /\ x.cb = <<"OutOfOrderApiCall">>
        /\ x.tc = <<>>

\* C25: SendPayload reports EndpointUnknown and hands nothing to the
\* controller exactly when none of its targets is connected as the body
\* executes (no target at all included); with one target connected it hands
\* the payload over, with all the targets it was given, and reports Success.
C25_SendNeedsOneConnected ==
    \A x \in Finished :
        x.op.kind = "SendPayload" =>
            /\ x.post = x.pre
            /\ IF \E e \in x.op.endpoint_ids : x.pre.connections[e] = "connected"
               THEN /\ x.tc = <<TcPayloadCall("SendPayload", x.op.endpoint_ids, Void,
                                              x.op.payload)>>
                    /\ x.cb = <<Success>>
               ELSE /\ x.tc = <<>>
                    /\ x.cb = <<"EndpointUnknown">>
\* A payload for two targets of which one is connected.
C25_Witness ==
    \E x \in Finished :
        /\ x.op.kind = "SendPayload"
        /\ x.op.endpoint_ids = {"e1", "e2"}
        /\ x.pre.connections["e1"] = "connected"
        /\ x.pre.connections["e2"] # "connected"
        /\ x.cb = <<Success>>

\* C27: CancelPayload has no guard of its own: whatever the session, it calls
\* the controller's CancelPayload once, with the payload id it was given, and
\* reports the Status that returned.
C27_CancelPayloadDelegates ==
    \A x \in Finished :
        x.op.kind \in {"CancelPayload", "CancelPayloadV3"} =>
            /\ x.guard = Pass
            /\ Len(x.tc) = 1
            /\ x.tc[1].m = "CancelPayload"
            /\ x.tc[1].payload = x.op.payload
            /\ x.cb = <<x.tc[1].ret>>
            /\ x.post = x.pre
\* A cancellation on a session without any connection, refused by the
\* controller.
C27_Witness ==
    \E x \in Finished :
        /\ x.op.kind = "CancelPayload"
        /\ x.op.payload = 2
        /\ HasRelation(x.pre) = {}
        /\ x.cb = <<"BluetoothError">>

\* The operations other than RequestConnection that report the controller's
\* Status.
DelegatingKinds ==
    AcceptKinds \cup RejectKinds
    \cup {"StartAdvertising", "StartDiscovery", "CancelPayload", "CancelPayloadV3"}

\* C28: when the controller refuses an AcceptConnection, RejectConnection,
\* StartAdvertising, StartDiscovery or CancelPayload, the body reports the
\* controller's Status and leaves the session as it found it: no cancellation
\* flag is raised, no relation is rolled back.
C28_NoCompensation ==
    \A x \in Finished :
        (/\ x.op.kind \in DelegatingKinds
         /\ x.tc # <<>>
         /\ x.tc[1].ret # Success) =>
            /\ Len(x.tc) = 1
            /\ x.cb = <<x.tc[1].ret>>
            /\ x.post = x.pre
\* A refused acceptance of a pending endpoint whose cancellation flag is
\* registered and stays so.
C28_Witness ==
    \E x \in Finished :
        /\ x.op.kind = "AcceptConnection"
        /\ x.cb = <<"BluetoothError">>
        /\ x.pre.connections[x.op.endpoint_id] = "pending"
        /\ x.op.endpoint_id \in x.pre.cancellation_flags
        /\ x.op.endpoint_id \in x.post.cancellation_flags


\* ------------------------------------------------- payloads, back to back
\* A session with one connected endpoint, as a request both sides accepted
\* leaves it.
ConnectedSession ==
    [InitSession EXCEPT !.connections["e1"] = "connected",
                        !.responded = {"e1"},
                        !.cancellation_flags = {"e1"}]
InitConnected ==
    /\ session = [c \in Clients |-> IF c = "c1" THEN ConnectedSession ELSE InitSession]
    /\ queue = <<>>
    /\ executing = {}
    /\ pc = [t \in Threads |-> Idle]
    /\ ncalls = 0
    /\ requested = [c \in Clients |-> [e \in Endpoints |-> c = "c1" /\ e = "e1"]]
    /\ answered_by = [c \in Clients |-> [e \in Endpoints |->
                        IF c = "c1" /\ e = "e1" THEN "accept" ELSE ""]]
    /\ router = [InitRouter EXCEPT !.service_controller_ = TRUE]
    /\ payloads = InitPayloads
    /\ adapter = InitAdapter
    /\ ble = InitBle

SendOps ==
    {MkOp("SendPayload", "c1", NoEndpoint, ids, NoMetadata) :
        ids \in {{"e1"}, {"e1", "e2"}, {"e2"}}}
    \cup {Op("SendPayloadV3", "c1", "e1")}
\* The caller gives the call a Payload of its own.
CallSend(t, op) == Call(t, WithPayload(op, ncalls + 1))

NextPayload ==
    \/ \E op \in SendOps : CallSend("t1", op)
    \/ SerializerStart
    \/ \E x \in executing, r \in TCStatuses : BodyRun(x, r)
    \/ \E x \in executing : SerializerRetire(x)
    \/ EnvDisconnected("c1", "e1")

SpecPayload == InitConnected /\ [][NextPayload]_vars

\* C26: a payload given to SendPayload is handed to the controller at most
\* once, by the body of the call it was given to, and once the result_cb of
\* that call has been invoked it is not handed over again.
C26_PayloadHandedOnce ==
    /\ [](/\ \A p \in DOMAIN payloads : payloads[p].handed <= 1
          /\ \A x \in Finished :
                \A k \in DOMAIN x.tc :
                    x.tc[k].m = "SendPayload" =>
                        /\ x.op.kind \in SendKinds
                        /\ x.tc[k].payload = x.op.payload)
    /\ [][\A p \in DOMAIN payloads :
            payloads[p].called_back => payloads'[p] = payloads[p]]_vars
\* Two payloads handed over one after the other, the first call retired.
C26_Witness ==
    /\ payloads[1] = [handed |-> 1, called_back |-> TRUE]
    /\ payloads[2] = [handed |-> 1, called_back |-> TRUE]
    /\ executing = {}


\* ------------------------------------------- two sessions on one router
\* Client c2 has a connection to endpoint e1; client c1 starts from nothing
\* and uses the same endpoint id.
InitShared ==
    /\ session = [c \in Clients |-> IF c = "c2" THEN ConnectedSession ELSE InitSession]
    /\ queue = <<>>
    /\ executing = {}
    /\ pc = [t \in Threads |-> Idle]
    /\ ncalls = 0
    /\ requested = [c \in Clients |-> [e \in Endpoints |-> c = "c2" /\ e = "e1"]]
    /\ answered_by = [c \in Clients |-> [e \in Endpoints |->
                        IF c = "c2" /\ e = "e1" THEN "accept" ELSE ""]]
    /\ router = [InitRouter EXCEPT !.service_controller_ = TRUE]
    /\ payloads = InitPayloads
    /\ adapter = InitAdapter
    /\ ble = InitBle

SharedOps ==
    {Op(k, "c1", "e1") : k \in {"RequestConnection", "AcceptConnection",
                                  "DisconnectFromEndpoint"}}
    \cup {Op("StartAdvertising", "c1", NoEndpoint), Op("StopAllEndpoints", "c1", NoEndpoint)}
    \cup {Op("DisconnectFromEndpoint", "c2", "e1")}

NextShared ==
    \/ \E op \in SharedOps : Call("t1", op)
    \/ CallStep("t1")
    \/ SerializerStart
    \/ \E x \in executing, r \in TCStatuses : BodyRun(x, r)
    \/ \E x \in executing : SerializerRetire(x)
    \/ \E c \in Clients, e \in Endpoints : EnvConnectionAccepted(c, e)
    \/ \E c \in Clients, e \in Endpoints : EnvDisconnected(c, e)

SpecShared == InitShared /\ [][NextShared]_vars

\* The step is a statement or the body of an operation on client c's session.
OperationOn(c) ==
    \/ \E t \in Threads :
          /\ pc'[t] # pc[t] \/ queue' # queue
          /\ \/ pc[t] # Idle /\ pc[t].op.client = c
             \/ pc'[t] # Idle /\ pc'[t].op.client = c
             \/ /\ Len(queue') = Len(queue) + 1
                /\ queue'[Len(queue')].client = c
    \/ \E x \in executing :
          /\ x.phase = "running"
          /\ x.op.client = c
          /\ x \notin executing'
\* The step is one of a router operation (not one of the remote side).
OperationStep == pc' # pc \/ queue' # queue \/ executing' # executing

\* C29: an operation on one session, StopAllEndpoints included, leaves every
\* other session that shares the router as it was (relations, flags,
\* cancellation flags), and leaves the controller resources that serve the
\* other session's connections, the bandwidth-upgrade executors included, in
\* place.
C29_SessionsIsolated ==
    /\ [](router.bwu_shutdown_under = {})
    /\ [][\A b \in Clients :
            (OperationStep /\ ~OperationOn(b)) => session'[b] = session[b]]_vars


\* ------------------------------------------------------------- liveness
\* One caller submits operations, stamped with the number of their call, and
\* the owner may destroy the router when no call is under way.  The serializer
\* thread keeps running: a body that can be taken is taken, a body taken is
\* run, a body that has run is retired.
LiveOps ==
    {Op(k, "c1", "e1") : k \in {"RequestConnection", "RejectConnection"}}
    \cup {Op("StopAllEndpoints", "c1", NoEndpoint)}
CallLive(op) ==
    /\ ncalls < MaxLiveCalls
    /\ CallStamped("t1", op)

NextLive ==
    \/ \E op \in LiveOps : CallLive(op)
    \/ CallStep("t1")
    \/ SerializerStart
    \/ \E x \in executing, r \in TCStatuses : BodyRun(x, r)
    \/ \E x \in executing : SerializerRetire(x)
    \/ Destructor

SpecLive ==
    /\ Init
    /\ [][NextLive]_vars
    /\ WF_vars(SerializerStart)
    /\ WF_vars(\E x \in executing, r \in TCStatuses : BodyRun(x, r))
    /\ WF_vars(\E x \in executing : SerializerRetire(x))

\* The operation of call n waits in the serializer or is being run.
Pending(n) ==
    \/ \E o \in Waits : o.seq = n
    \/ \E x \in executing : x.phase = "running" /\ x.op.seq = n
\* The body of call n has run and has invoked result_cb with a Status.
CalledBack(n) == \E x \in Finished : x.op.seq = n /\ Len(x.cb) = 1
\* Call n returns to its caller in this step.
Returns(n) ==
    /\ pc'["t1"] = Idle
    /\ \/ pc["t1"] # Idle /\ pc["t1"].op.seq = n
       \/ pc["t1"] = Idle /\ ncalls = n - 1 /\ ncalls' = n

\* C30: every operation submitted before the router is destroyed is handed to
\* the serializer, stays there until its body is taken, and eventually has its
\* body run to the end and result_cb invoked with a Status.
C30_EveryOperationCalledBack ==
    /\ [][\A n \in 1..MaxLiveCalls : Returns(n) => Pending(n)']_vars
    /\ [][\A n \in 1..MaxLiveCalls :
            (Pending(n) /\ ~Pending(n)') => CalledBack(n)']_vars
    /\ \A n \in 1..MaxLiveCalls : Pending(n) ~> CalledBack(n)
\* The router is destroyed with a body still waiting behind the one that
\* runs; both have since been called back and the serializer is shut down.
C30_Witness ==
    /\ router.destructor = 2
    /\ ncalls >= 2
    /\ queue = <<>>
    /\ executing = {}


\* ------------------------------------------------------ quality of a medium
\* A caller asks for the quality of a medium; the answer is kept with the
\* question.
CallGetMediumQuality(medium) ==
    /\ Len(adapter.asked) < MaxEvents
    /\ adapter' = [adapter EXCEPT !.asked =
                      Append(@, [medium |-> medium, quality |-> GetMediumQuality(medium)])]
    /\ UNCHANGED <<session, queue, executing, pc, ncalls, requested, answered_by,
                   router, payloads, ble>>

NextQuality == \E medium \in Mediums : CallGetMediumQuality(medium)

SpecQuality == Init /\ [][NextQuality]_vars

\* C31: GetMediumQuality answers every medium value, the same way each time,
\* by the fixed table: UNKNOWN_MEDIUM and USB unknown; BLE and NFC low;
\* BLUETOOTH and BLE_L2CAP medium; WIFI_HOTSPOT, WIFI_LAN, WIFI_AWARE,
\* WIFI_DIRECT and WEB_RTC high; every other value unknown.
C31_QualityTable ==
    \A i \in DOMAIN adapter.asked :
        LET medium == adapter.asked[i].medium
            quality == adapter.asked[i].quality
        IN /\ medium \in {"BLE", "NFC"} <=> quality = kLow
           /\ medium \in {"BLUETOOTH", "BLE_L2CAP"} <=> quality = kMedium
           /\ medium \in {"WIFI_HOTSPOT", "WIFI_LAN", "WIFI_AWARE", "WIFI_DIRECT",
                          "WEB_RTC"} <=> quality = kHigh
           /\ quality \in {kUnknown, kLow, kMedium, kHigh}
           /\ \A j \in DOMAIN adapter.asked :
                 adapter.asked[j].medium = medium => adapter.asked[j].quality = quality
\* NFC and a value outside the enumeration have been asked for.
C31_Witness ==
    /\ Len(adapter.asked) = 2
    /\ adapter.asked[1] = [medium |-> "NFC", quality |-> kLow]
    /\ adapter.asked[2] = [medium |-> "out of range", quality |-> kUnknown]


\* --------------------------------------- the device-centric operations
\* The endpoint-id operation each device-centric operation stands for.
DeviceKinds ==
    {"RequestConnectionV3", "AcceptConnectionV3", "RejectConnectionV3",
     "InitiateBandwidthUpgradeV3", "SendPayloadV3", "CancelPayloadV3",
     "DisconnectFromDeviceV3"}
EndpointIdKind(kind) ==
    CASE kind = "RequestConnectionV3" -> "RequestConnection"
      [] kind = "AcceptConnectionV3" -> "AcceptConnection"
      [] kind = "RejectConnectionV3" -> "RejectConnection"
      [] kind = "InitiateBandwidthUpgradeV3" -> "InitiateBandwidthUpgrade"
      [] kind = "SendPayloadV3" -> "SendPayload"
      [] kind = "CancelPayloadV3" -> "CancelPayload"
      [] kind = "DisconnectFromDeviceV3" -> "DisconnectFromEndpoint"
\* The endpoint-id call with the device's endpoint id: SendPayload gets the
\* one id as its list, CancelPayload gets no endpoint at all.
EndpointIdOp(op) ==
    [op EXCEPT !.kind = EndpointIdKind(@),
               !.endpoint_id =
                   IF op.kind \in {"SendPayloadV3", "CancelPayloadV3"}
                   THEN NoEndpoint ELSE @,
               !.endpoint_ids = IF op.kind = "SendPayloadV3" THEN {op.endpoint_id} ELSE @]

DeviceOps ==
    {WithPayload(Op(k, "c1", "e1"), 1) : k \in DeviceKinds}

NextDevice ==
    \/ \E op \in DeviceOps : CallOnce(op)
    \/ CallStep("t1")
    \/ SerializerStart
    \/ \E x \in executing, r \in TCStatuses : BodyRun(x, r)
    \/ \E x \in executing : SerializerRetire(x)
    \/ \E e \in Endpoints : EnvConnectionAccepted("c1", e)
    \/ \E e \in Endpoints : EnvDisconnected("c1", e)

SpecDevice == InitAny /\ [][NextDevice]_vars

\* C32: a device-centric operation on the device with endpoint id e ran the
\* statements before routing that the endpoint-id operation on e runs, its
\* guard gave what that operation's guard gives on the same session, and for
\* every answer of the controller its body leaves the session, makes the
\* controller calls and reports the Status that operation's body does.
C32_DeviceSameAsEndpointId ==
    \A x \in Finished :
        x.op.kind \in DeviceKinds =>
            LET v1 == EndpointIdOp(x.op)
            IN /\ Steps(x.op.kind) = Steps(v1.kind)
               /\ Append(x.op.pre, "RouteToServiceController") = Steps(v1.kind)
               /\ x.guard = Guard(x.pre, v1)
               /\ \A r \in TCStatuses :
                      Body(x.pre, x.op, x.guard, r) = Body(x.pre, v1, Guard(x.pre, v1), r)
               /\ \E r \in TCStatuses :
                      Body(x.pre, v1, Guard(x.pre, v1), r) = Res(x.post, x.tc, x.cb)
\* A pending endpoint disconnected through its device.
C32_Witness ==
    \E x \in Finished :
        /\ x.op.kind = "DisconnectFromDeviceV3"
        /\ x.op.pre = <<"CancelEndpoint">>
        /\ x.pre.connections[x.op.endpoint_id] = "pending"
        /\ x.tc = <<TcCall("DisconnectFromEndpoint", x.op.endpoint_id, {}, Void)>>
        /\ x.cb = <<Success>>


\* --------------------------------------- the listener RequestConnectionV3 wraps
WithListener(op, l) == [op EXCEPT !.listener = l]
\* A caller asks for a connection to e1 or to e2 and gives a listener of its
\* own with it.
ListenerOps ==
    {WithListener(Op("RequestConnectionV3", "c1", "e1"), 1),
     WithListener(Op("RequestConnectionV3", "c1", "e2"), 2)}

\* The endpoint-id events the controller reports for a bundle.
EventMediums == {"BLE", "WIFI_LAN", "MDNS"}
EventStatuses == {"ConnectionRejected", "Error"}
EndpointEvent(cb, e, status, medium) ==
    [cb |-> cb, endpoint_id |-> e, status |-> status, medium |-> medium]
ListenerEvents(e) ==
    {EndpointEvent(cb, e, "", "") : cb \in {"initiated_cb", "accepted_cb", "disconnected_cb"}}
    \cup {EndpointEvent("rejected_cb", e, st, "") : st \in EventStatuses}
    \cup {EndpointEvent("bandwidth_changed_cb", e, "", m) : m \in EventMediums}

\* The queued closure of the request that built the bundle b is still held by
\* the serializer.
ClosureAlive(b) ==
    \E x \in executing : x.op.listener = b.listener

\* A thread of the controller invokes a callback of a bundle it holds.
ControllerInvokes(b, ev, out) ==
    /\ b \in adapter.bundles
    /\ Len(adapter.fired) < MaxEvents
    /\ ev \in ListenerEvents(b.endpoint_id)
    /\ out \in Invoke(b.listener, ev, ClosureAlive(b))
    /\ adapter' = [adapter EXCEPT
                      !.fired = Append(@, [bundle |-> b, ev |-> ev,
                                           released |-> ~ClosureAlive(b)]),
                      !.delivered = Append(@, out)]
    /\ UNCHANGED <<session, queue, executing, pc, ncalls, requested, answered_by, router, payloads, ble>>

NextBundle ==
    \/ \E op \in ListenerOps : CallOnce(op)
    \/ CallStep("t1")
    \/ SerializerStart
    \/ \E x \in executing, r \in TCStatuses : BodyRun(x, r)
    \/ \E x \in executing : SerializerRetire(x)
    \/ \E b \in adapter.bundles :
          \E ev \in ListenerEvents(b.endpoint_id) :
             \E out \in Invoke(b.listener, ev, ClosureAlive(b)) :
                ControllerInvokes(b, ev, out)

SpecBundle == Init /\ [][NextBundle]_vars

\* C33: every accepted, rejected, disconnected and bandwidth-changed event of
\* the endpoint-id listener makes exactly one call on the v3 listener of the
\* request, for the device with the event's endpoint id: result_cb with Success
\* for accepted, result_cb with the event's status for rejected,
\* disconnected_cb for disconnected, and bandwidth_changed_cb with the event's
\* medium and the tier GetMediumQuality gives for it.
C33_EventsTranslated ==
    \A i \in DOMAIN adapter.fired :
        LET ev == adapter.fired[i].ev
            l == adapter.fired[i].bundle.listener
            out == adapter.delivered[i]
        IN ev.cb # "initiated_cb" =>
              /\ Len(out) = 1
              /\ out[1].listener = l
              /\ out[1].device = ev.endpoint_id
              /\ ev.cb = "accepted_cb" =>
                    out[1].cb = "result_cb" /\ out[1].status = Success
              /\ ev.cb = "rejected_cb" =>
                    out[1].cb = "result_cb" /\ out[1].status = ev.status
              /\ ev.cb = "disconnected_cb" => out[1].cb = "disconnected_cb"
              /\ ev.cb = "bandwidth_changed_cb" =>
                    /\ out[1].cb = "bandwidth_changed_cb"
                    /\ out[1].medium = ev.medium
                    /\ out[1].quality = GetMediumQuality(ev.medium)

\* C35: a callback invoked after the serializer has released the queued
\* closure reaches the v3 listener of the request as it does before.
C35_CallbacksOutliveBody ==
    \A i \in DOMAIN adapter.fired :
        adapter.fired[i].released =>
            adapter.delivered[i] =
                ListenerCb(adapter.fired[i].bundle.listener, adapter.fired[i].ev)


\* --------------------------------------- the one controller of a router
\* SetServiceControllerForTesting(), called before the router is used.
SetServiceControllerForTesting ==
    /\ router.owned = NoController
    /\ router.returned = {}
    /\ \A w \in Getters : router.get[w] = "out"
    /\ router' = [router EXCEPT !.owned = InjectedController,
                                !.service_controller_ = TRUE]
    /\ UNCHANGED <<session, queue, executing, pc, ncalls, requested, answered_by, payloads, adapter, ble>>

\* A thread (a caller in one of the listening operations, or the serializer
\* in a body) enters GetServiceController() and tests service_controller_.
GetServiceControllerTest(w) ==
    /\ router.get[w] = "out"
    /\ ncalls < MaxCalls
    /\ ncalls' = ncalls + 1
    /\ router' = [router EXCEPT !.get[w] =
                     IF router.owned = NoController THEN "make_unique" ELSE "return"]
    /\ UNCHANGED <<session, queue, executing, pc, requested, answered_by, payloads, adapter, ble>>
\* It found none: it makes a default controller and assigns it, which destroys
\* the one service_controller_ owned, if another thread has put one there.
GetServiceControllerMake(w) ==
    /\ router.get[w] = "make_unique"
    /\ router' = [router EXCEPT !.get[w] = "return",
                                !.constructed = @ + 1,
                                !.owned = DefaultController(router.constructed + 1),
                                !.service_controller_ = TRUE]
    /\ UNCHANGED <<session, queue, executing, pc, ncalls, requested, answered_by, payloads, adapter, ble>>
\* It returns service_controller_.get().
GetServiceControllerReturn(w) ==
    /\ router.get[w] = "return"
    /\ router' = [router EXCEPT !.get[w] = "out",
                                !.returned = @ \cup {router.owned}]
    /\ UNCHANGED <<session, queue, executing, pc, ncalls, requested, answered_by, payloads, adapter, ble>>

NextController ==
    \/ SetServiceControllerForTesting
    \/ \E w \in Getters : GetServiceControllerTest(w)
    \/ \E w \in Getters : GetServiceControllerMake(w)
    \/ \E w \in Getters : GetServiceControllerReturn(w)

SpecController == Init /\ [][NextController]_vars

\* A default controller is made at most once.
ConstructedAtMostOnce == router.constructed <= 1
\* Every call of GetServiceController() returns the same object.
SameInstanceReturned == Cardinality(router.returned) <= 1
\* An injected controller is the one every call returns, and no default one
\* is made beside it.
InjectedNeverReplaced ==
    (router.owned = InjectedController \/ InjectedController \in router.returned) =>
        /\ router.owned = InjectedController
        /\ router.constructed = 0
        /\ router.returned \subseteq {InjectedController}

\* C34: the router has one controller for its whole life: a default one is
\* made at most once, every call of GetServiceController() returns the same
\* object, and an injected controller is never replaced, also when callers
\* in the listening operations and the serializer are in GetServiceController()
\* together.
C34_OneController ==
    /\ ConstructedAtMostOnce
    /\ SameInstanceReturned
    /\ InjectedNeverReplaced


\* --------------------------------------- the Windows BleMedium
router_vars ==
    <<session, queue, executing, pc, ncalls, requested, answered_by, router,
      payloads, adapter>>

\* What callers advertise: two short advertisements and one of 28 bytes.
LongAdvertisement == [i \in 1..(kMaxLegacyAdvertisementBytes + 1) |-> 7]
AdvertisementBytes == {<<1>>, <<2, 3>>, LongAdvertisement}
FastAdvertisementServiceUuids == {"", "FE2C"}

\* A thread takes mutex_ and enters a call.
Enter(t) ==
    /\ ble.at[t] = "out"
    /\ ble.mutex_ = ""
    /\ ble.calls < MaxBleCalls
Leave(b, t) == [b EXCEPT !.mutex_ = "", !.at[t] = "out"]

\* StartAdvertising up to publisher_.Start(), or to its return false.
StartAdvertising(t, advertisement_bytes, fast_advertisement_service_uuid) ==
    /\ Enter(t)
    /\ LET data_sections == Append(ble.advertisement_, ServiceDataSection(advertisement_bytes))
           entered == [ble EXCEPT
                          !.calls = @ + 1,
                          !.advertisement_ = data_sections,
                          !.start_advertising =
                              [bytes |-> advertisement_bytes,
                               fast |-> fast_advertisement_service_uuid,
                               before |-> ble.advertisement_,
                               returned |-> "pending"]]
       IN IF fast_advertisement_service_uuid = ""
             \/ Len(advertisement_bytes) <= kMaxLegacyAdvertisementBytes
          THEN ble' = [entered EXCEPT
                          !.mutex_ = t,
                          !.at[t] = "StartAdvertising",
                          !.publisher_ = [status |-> "Waiting",
                                          advertisement |-> data_sections,
                                          handler |-> TRUE],
                          !.promise["publisher_started_promise_"] = NewPromise]
          ELSE ble' = [entered EXCEPT !.start_advertising.returned = "false"]
    /\ UNCHANGED router_vars
\* publisher_state_future.get() has a value: StartAdvertising returns.
StartAdvertisingReturn(t) ==
    /\ ble.at[t] = "StartAdvertising"
    /\ ble.promise["publisher_started_promise_"].set > 0
    /\ ble' = Leave([ble EXCEPT !.start_advertising.returned =
                        IF ble.promise["publisher_started_promise_"].value = kStarted
                        THEN "true" ELSE "false"], t)
    /\ UNCHANGED router_vars

\* StopAdvertising, of an advertisement that is being published, up to
\* publisher_.Stop().
StopAdvertising(t) ==
    /\ Enter(t)
    /\ ble.publisher_.status = "Started"
    /\ ble' = [ble EXCEPT !.calls = @ + 1,
                          !.mutex_ = t,
                          !.at[t] = "StopAdvertising",
                          !.promise["publisher_stopped_promise_"] = NewPromise,
                          !.publisher_.status = "Stopping"]
    /\ UNCHANGED router_vars
StopAdvertisingReturn(t) ==
    /\ ble.at[t] = "StopAdvertising"
    /\ ble.promise["publisher_stopped_promise_"].set > 0
    /\ ble' = Leave(ble, t)
    /\ UNCHANGED router_vars

\* The publisher changes its status and raises StatusChanged: a publisher that
\* was started starts or aborts, one that is publishing aborts, one that was
\* stopped stops.  PublisherHandler runs when it is registered.
PublisherStatusChanged(status, error) ==
    /\ \/ ble.publisher_.status = "Waiting" /\ status \in {"Started", "Aborted"}
       \/ ble.publisher_.status = "Started" /\ status = "Aborted"
       \/ ble.publisher_.status = "Stopping" /\ status = "Stopped"
    /\ status # "Aborted" => error = "Success"
    /\ LET changed == [ble EXCEPT !.publisher_.status = status]
       IN ble' = IF ble.publisher_.handler
                 THEN RunStatements(changed, PublisherHandler(status, error, status))
                 ELSE changed
    /\ UNCHANGED router_vars

\* StartScanning up to watcher_.Start(), or to its return false.
StartScanning(t) ==
    /\ Enter(t)
    /\ ble' = IF ble.is_watcher_started_
              THEN [ble EXCEPT !.calls = @ + 1]
              ELSE [ble EXCEPT !.calls = @ + 1,
                               !.mutex_ = t,
                               !.at[t] = "StartScanning",
                               !.watcher_ = [status |-> "Created", handler |-> TRUE],
                               !.promise["watcher_started_promise_"] = NewPromise]
    /\ UNCHANGED router_vars
\* One turn of while (!is_watcher_started_).
StartScanningPoll(t) ==
    /\ ble.at[t] = "StartScanning"
    /\ ble' = IF ble.watcher_.status = "Created"
              THEN Leave([RunStatements(ble, <<SetValue("watcher_started_promise_", kStarted)>>)
                             EXCEPT !.is_watcher_started_ = TRUE], t)
              ELSE [ble EXCEPT !.turn = 1 - @]
    /\ UNCHANGED router_vars

\* StopScanning up to watcher_.Stop(), or to its return true.
StopScanning(t) ==
    /\ Enter(t)
    /\ ble' = IF ~ble.is_watcher_started_
              THEN [ble EXCEPT !.calls = @ + 1]
              ELSE [ble EXCEPT !.calls = @ + 1,
                               !.mutex_ = t,
                               !.at[t] = "StopScanning",
                               !.promise["watcher_stopped_promise_"] = NewPromise,
                               !.watcher_.status =
                                   IF @ \in {"Created", "Started"} THEN "Stopping" ELSE @]
    /\ UNCHANGED router_vars
\* One turn of while (is_watcher_started_): when set_value throws, the call
\* is left by the exception, with the watcher and the flag as they were.
StopScanningPoll(t) ==
    /\ ble.at[t] = "StopScanning"
    /\ ble' = IF ble.watcher_.status = "Stopped"
              THEN LET set == RunStatements(ble, <<SetValue("watcher_stopped_promise_", kStopped)>>)
                   IN IF set.promise["watcher_stopped_promise_"].set = 2
                      THEN Leave(set, t)
                      ELSE Leave([set EXCEPT !.watcher_ = [status |-> "null", handler |-> FALSE],
                                             !.is_watcher_started_ = FALSE], t)
              ELSE [ble EXCEPT !.turn = 1 - @]
    /\ UNCHANGED router_vars

\* The watcher that was started begins to scan; no handler is registered for
\* that.
WatcherStarted ==
    /\ ble.watcher_.status = "Created"
    /\ ble' = [ble EXCEPT !.watcher_.status = "Started"]
    /\ UNCHANGED router_vars
\* The watcher raises Stopped: it has stopped as asked (error Success), or it
\* was aborted with an error.  WatcherHandler runs when it is registered.
WatcherStopped(error) ==
    /\ \/ ble.watcher_.status = "Stopping" /\ error = "Success"
       \/ ble.watcher_.status \in {"Created", "Started"} /\ error # "Success"
    /\ LET status == IF error = "Success" THEN "Stopped" ELSE "Aborted"
           changed == [ble EXCEPT !.watcher_.status = status]
       IN ble' = IF ble.watcher_.handler
                 THEN RunStatements(changed, WatcherHandler(error, status))
                 ELSE changed
    /\ UNCHANGED router_vars

NextBle ==
    \/ \E t \in Threads, bytes \in AdvertisementBytes, uuid \in FastAdvertisementServiceUuids :
          StartAdvertising(t, bytes, uuid)
    \/ \E t \in Threads : StartAdvertisingReturn(t)
    \/ \E t \in Threads : StopAdvertising(t)
    \/ \E t \in Threads : StopAdvertisingReturn(t)
    \/ \E status \in {"Started", "Stopped", "Aborted"}, error \in BluetoothErrors :
          PublisherStatusChanged(status, error)
    \/ \E t \in Threads : StartScanning(t)
    \/ \E t \in Threads : StartScanningPoll(t)
    \/ \E t \in Threads : StopScanning(t)
    \/ \E t \in Threads : StopScanningPoll(t)
    \/ WatcherStarted
    \/ \E error \in BluetoothErrors : WatcherStopped(error)

SpecBle == Init /\ [][NextBle]_vars

\* C36: no promise of the medium has set_value called on it a second time
\* before it is made anew.
C36_PromiseSatisfiedOnce ==
    \A p \in Promises : ble.promise[p].set <= 1

\* The advertisement of the publisher the latest StartAdvertising started
\* holds one section, of type 0x16: the Copresence UUID and then the bytes of
\* that call.
PublishedOneSection ==
    ble.start_advertising.returned = "true" =>
        ble.publisher_.advertisement =
            <<[type |-> kServiceDataType,
               data |-> <<243, 254>> \o ble.start_advertising.bytes]>>
\* A StartAdvertising that was given more than 27 bytes with a
\* fast-advertisement UUID and returned false has started no publisher ...
RefusedStartsNoPublisher ==
    LET call == ble.start_advertising
    IN (/\ call.returned = "false"
        /\ call.fast # ""
        /\ Len(call.bytes) > kMaxLegacyAdvertisementBytes) =>
          \/ ble.publisher_.status = "null"
          \/ ble.publisher_.advertisement # Append(call.before, ServiceDataSection(call.bytes))
\* ... and has left advertisement_ as it found it.
RefusedLeavesAdvertisement ==
    LET call == ble.start_advertising
    IN (/\ call.returned = "false"
        /\ call.fast # ""
        /\ Len(call.bytes) > kMaxLegacyAdvertisementBytes) =>
          ble.advertisement_ = call.before

\* C38: when the latest StartAdvertising has returned true, the advertisement
\* published holds exactly one service-data section, made of the Copresence
\* UUID and the bytes of that call; when it has returned false for more than
\* 27 bytes with a fast-advertisement UUID, no publisher was started and
\* advertisement_ is as the call found it.
C38_OneServiceDataSection ==
    /\ PublishedOneSection
    /\ RefusedStartsNoPublisher
    /\ RefusedLeavesAdvertisement

\* --------------------------------------- the medium, with progress
\* A thread in one of the scanning loops keeps polling; the platform starts a
\* watcher that was started and stops one that was stopped.  Nothing obliges
\* the watcher to abort.
SpecBleProgress ==
    /\ Init
    /\ [][NextBle]_vars
    /\ \A t \in Threads : WF_vars(StartScanningPoll(t))
    /\ \A t \in Threads : WF_vars(StopScanningPoll(t))
    /\ WF_vars(WatcherStarted)
    /\ WF_vars(WatcherStopped("Success"))

InScanningLoop(t) == ble.at[t] \in {"StartScanning", "StopScanning"}

\* C37: a thread that has entered the loop of StartScanning or of
\* StopScanning leaves it (and with it the call, and mutex_).
C37_ScanningReturns ==
    \A t \in Threads : InScanningLoop(t) ~> ~InScanningLoop(t)

====
